---- MODULE Spec2Model ----
(***************************************************************************)
(* Verification model of the Nexus engine core:                            *)
(*   - DisruptorQueue  (backend/cpp/core/disruptor_queue.h)                *)
(*   - PositionManager (backend/cpp/position/position_manager.cpp)         *)
(*   - PriceLevel / LockFreeOrderBook (backend/cpp/execution)              *)
(*   - BacktestEngine dispatch loop (src/cpp/core/backtest_engine.cpp)     *)
(*   - MemoryPool      (backend/cpp/core/hpc_utils.h)                      *)
(*   - EventQueue      (src/cpp/core/event_queue.h)                        *)
(*   - Position::adjust_position (backend/cpp/position/position.h)         *)
(*   - Order::try_fill (backend/cpp/execution/price_level.h)               *)
(*   - SmaCrossoverStrategy (src/cpp/strategies/sma_strategy.cpp)          *)
(*   - BlockingWaitStrategy (src/cpp/core/wait_strategy.h)                 *)
(* The ring buffer is modelled twice: shared by producer and consumer      *)
(* threads that interleave at each atomic access, and constructed from any *)
(* configured size and then used by a single thread, alone or next to the  *)
(* mutex-guarded fallback queue that is given the same calls.              *)
(* Each subsystem has its own specification, which leaves the variables of *)
(* the other subsystems at their initial values; the engine specification  *)
(* drives the ledger through the dispatch loop.                            *)
(***************************************************************************)
EXTENDS Integers, Sequences, FiniteSets, TLC

(***************************************************************************)
(* Bounds                                                                  *)
(***************************************************************************)
BufferSizeLog2 == 1
MaxEvents == 3
MaxLedgerOps == 3
MaxBookOps == 3
MaxRaceOps == 5
MaxBars == 3
MaxConfiguredSize == 5
MaxRingEvents == 4

(***************************************************************************)
(* Generic helpers                                                         *)
(***************************************************************************)
RECURSIVE Pow2(_)
Pow2(n) == IF n = 0 THEN 1 ELSE 2 * Pow2(n - 1)

RECURSIVE BitAnd(_, _)
BitAnd(x, y) ==
    IF x = 0 \/ y = 0 THEN 0
    ELSE (x % 2) * (y % 2) + 2 * BitAnd(x \div 2, y \div 2)

Range(s) == { s[i] : i \in 1..Len(s) }

(***************************************************************************)
(* DisruptorQueue                                                          *)
(***************************************************************************)
VARIABLES
    cursor_,             \* producer sequence (AtomicSequence, initial -1)
    consumer_sequence_,  \* consumer sequence (AtomicSequence, initial -1)
    buffer_,             \* slot index -> event pointer (Null = nullptr)
    ppc,                 \* producer thread -> position in publish/try_publish
    pblocking,           \* producer thread -> TRUE in publish, FALSE in try_publish
    pevent,              \* producer thread -> event handed to the call
    current_sequence,    \* producer thread -> local of claim_next_sequence
    next_sequence,       \* producer thread -> local of claim_next_sequence
    pcount,              \* producer thread -> number of events published so far
    cpc,                 \* consumer thread -> position in try_consume/consume
    cblocking,           \* consumer thread -> TRUE in consume, FALSE in try_consume
    next_consume_sequence, \* consumer thread -> local of try_consume
    cevent,              \* consumer thread -> local 'event' of try_consume
    published,           \* history: events whose publish call returned success
    written,             \* history: sequences whose slot store has completed
    returned,            \* history: <<sequence, value>> of each consume that advanced
    overwrote            \* history: a slot store replaced an event nobody had taken

(***************************************************************************)
(* PositionManager state                                                   *)
(***************************************************************************)
VARIABLES
    positions_,           \* symbol -> Position (only symbols present in the map)
    portfolio_stats_,     \* PortfolioStatistics atomics
    cached_total_equity_, \* cache of total equity
    equity_cache_valid_,  \* cache-valid flag
    equity_curve_,        \* equity snapshots
    trade_history_,       \* number of fills recorded (size of the vector)
    recent_fills          \* the latest zero-commission buy into a symbol without
                          \* a position, with the totals it found, and the
                          \* equal sell if that was the next ledger operation

lvars == <<positions_, portfolio_stats_, cached_total_equity_,
           equity_cache_valid_, equity_curve_, trade_history_, recent_fills>>

(***************************************************************************)
(* LockFreeOrderBook state                                                 *)
(***************************************************************************)
VARIABLES
    orders_,          \* the Order objects, in order of construction
    bid_levels_,      \* price -> PriceLevel of the bid ladder
    ask_levels_,      \* price -> PriceLevel of the ask ladder
    order_lookup_,    \* order id -> OrderInfo
    next_order_id_,   \* generator of replacement ids
    cache_valid_,     \* best bid/ask cache flag
    match_result,     \* MatchResult returned by the last match call
    returned_value,   \* bool returned by the last add/cancel/modify call
    book_ops          \* number of completed calls on the book

\* threads inside match_market_order and cancel_order
VARIABLES
    mpc,                 \* matching thread -> position in match_market_order
    mlocal,              \* matching thread -> its local variables
    xpc,                 \* cancelling thread -> position in cancel_order
    xlocal,              \* cancelling thread -> its local variables
    cancel_returned,     \* orders whose cancel_order call has returned true
    filled_after_cancel  \* a match call begun after that return filled one

rvars == <<mpc, mlocal, xpc, xlocal, cancel_returned, filled_after_cancel>>

bvars == <<orders_, bid_levels_, ask_levels_, order_lookup_, next_order_id_,
           cache_valid_, match_result, returned_value, book_ops, rvars>>

(***************************************************************************)
(* BacktestEngine, CsvDataHandler and EventPool state                      *)
(***************************************************************************)
VARIABLES
    events_,              \* the events created from the pool, in order of creation
    live_,                \* events whose pool cell is allocated
    traditional_queue_,   \* the bus: events enqueued and not yet dequeued
    current_data_index_,  \* bars the data handler has streamed
    is_running_,          \* run() is executing
    stop_requested_,      \* stop flag of the engine
    last_signal_,         \* symbol -> last signal of the symbol's strategy
    epc,                  \* position of the thread that calls run()
    dispatched,           \* events the dispatch loop has dispatched, in order
    all_data_points_,     \* number of bars the data handler has loaded
    null_dereferenced,    \* an event was filled in through a null pointer
    aborted               \* the process was ended by an invalid access

dvars == <<events_, live_, traditional_queue_, current_data_index_,
           is_running_, stop_requested_, last_signal_, epc, dispatched,
           all_data_points_, null_dereferenced, aborted>>

\* a DisruptorQueue built from a caller's Config and used by one thread
VARIABLES
    ring,        \* config_.buffer_size, buffer_mask_, buffer_, cursor_, consumer_sequence_
    accepted,    \* events for which try_publish returned true, in order
    delivered,   \* values returned by the try_consume calls that took a sequence
    crashed,     \* an access outside buffer_ ended the process
    dequeued     \* results of the dequeue calls made on two EventQueues, one
                 \* with the ring buffer and one with the fallback: pairs
                 \* <<from the ring buffer, from the fallback>>

cvars == <<ring, accepted, delivered, crashed, dequeued>>

\* MemoryPool<T> shared by threads that call allocate and deallocate
VARIABLES
    chunks_,            \* the chunks of the pool: the number of cells of each
    free_list_head_,    \* head of the free list (a cell, or Null)
    block_next,         \* cell -> next pointer of the Block
    is_allocated,       \* cells whose Block has is_allocated set
    current_size_,      \* the pool's count of its cells
    expanding_,         \* flag of the thread inside expand_pool
    apc,                \* thread -> position in allocate
    alocal,             \* thread -> its local variables
    allocate_result,    \* thread -> what its last allocate call returned
    saw_exhausted,      \* thread -> at some moment of that call every one of
                        \* max_pool_size cells was allocated
    held_,               \* thread -> cells it got from allocate and still holds
    pool_ops            \* number of allocate and deallocate calls begun

mvars == <<chunks_, free_list_head_, block_next, is_allocated, current_size_,
           expanding_, apc, alocal, allocate_result, saw_exhausted, held_,
           pool_ops>>

\* one Position object whose adjust_position is called by several threads
VARIABLES
    shared_position, \* the atomics of the Position
    jpc,             \* thread -> position in adjust_position
    jlocal,          \* thread -> its arguments and local variables
    deltas_applied,  \* sum of the quantity_delta of the calls begun
    adjust_ops       \* number of adjust_position calls begun

pvars == <<shared_position, jpc, jlocal, deltas_applied, adjust_ops>>

\* one resting Order whose try_fill is called by several threads
VARIABLES
    resting_order,   \* the order's original_quantity and its atomics
    fpc,             \* thread -> position in try_fill
    flocal,          \* thread -> its argument and local variables
    try_fill_result, \* thread -> argument and return value of its last call
    filled_total,    \* sum of the values try_fill has returned
    fill_ops         \* number of try_fill calls begun

tvars == <<resting_order, fpc, flocal, try_fill_result, filled_total, fill_ops>>

\* one SmaCrossoverStrategy with its two IncrementalSMA calculators
VARIABLES
    short_window_,     \* the strategy's windows
    long_window_,
    short_calculator_, \* IncrementalSMA: prices_ and current_sum_
    long_calculator_,
    sma_last_signal_,  \* SmaCrossoverStrategy::last_signal_
    bars_received,     \* number of on_market_data calls
    generated          \* what the last generate_signal returned

svars == <<short_window_, long_window_, short_calculator_, long_calculator_,
           sma_last_signal_, bars_received, generated>>

\* the BlockingWaitStrategy of a DisruptorQueue
VARIABLES
    mutex_,     \* the thread that holds BlockingWaitStrategy::mutex_, or "free"
    condition_  \* the threads blocked in condition_.wait and not yet notified

wvars == <<mutex_, condition_>>

\* the dispatch loop on an EventQueue with the ring buffer backend
VARIABLES
    kinds,     \* event -> the type of an event handed to enqueue
    processed  \* number of dequeued events the dispatch loop has processed

nvars == <<kinds, processed>>

\* threads inside PositionManager::on_market_data and get_total_equity
VARIABLES
    kpc,        \* thread -> position in its call
    klocal,     \* thread -> its local variables
    equity_ops  \* number of calls begun

kvars == <<kpc, klocal, equity_ops>>

\* the variables of the specifications that follow the memory pool
xvars == <<pvars, tvars, svars, wvars, nvars, kvars>>

qvars == <<cursor_, consumer_sequence_, buffer_, ppc, pblocking, pevent,
           current_sequence, next_sequence, pcount, cpc, cblocking,
           next_consume_sequence, cevent, published, written, returned,
           overwrote>>

Null == 0

Producers == {"p1", "p2"}
Consumers == {"c1", "c2"}

\* Config::buffer_size as configured by the caller
buffer_size == Pow2(BufferSizeLog2)

\* Config::validate: round up to a power of two, at least 2
RECURSIVE NextPower(_, _)
NextPower(next_power, n) ==
    IF next_power < n THEN NextPower(2 * next_power, n) ELSE next_power

validate(n) ==
    LET rounded == IF n # 0 /\ BitAnd(n, n - 1) # 0 THEN NextPower(1, n) ELSE n
    IN  IF rounded < 2 THEN 2 ELSE rounded

\* the constructor: mask and storage from the configured size, then validate()
buffer_mask_ == buffer_size - 1
BufferLen == buffer_size
capacity == validate(buffer_size)

SlotIndex(seq) == BitAnd(seq, buffer_mask_)

\* the k-th event of producer p (distinct non-null pointers)
EventOf(p, k) == (IF p = "p1" THEN 0 ELSE 100) + k
AllEvents == { EventOf(p, k) : p \in Producers, k \in 1..MaxEvents }

QInit ==
    /\ cursor_ = -1
    /\ consumer_sequence_ = -1
    /\ buffer_ = [i \in 0..(BufferLen - 1) |-> Null]
    /\ ppc = [p \in Producers |-> "idle"]
    /\ pblocking = [p \in Producers |-> FALSE]
    /\ pevent = [p \in Producers |-> Null]
    /\ current_sequence = [p \in Producers |-> -1]
    /\ next_sequence = [p \in Producers |-> -1]
    /\ pcount = [p \in Producers |-> 0]
    /\ cpc = [c \in Consumers |-> "idle"]
    /\ cblocking = [c \in Consumers |-> FALSE]
    /\ next_consume_sequence = [c \in Consumers |-> -1]
    /\ cevent = [c \in Consumers |-> Null]
    /\ published = <<>>
    /\ written = {}
    /\ returned = <<>>
    /\ overwrote = FALSE

ProducerLocals == <<pblocking, pevent, current_sequence, next_sequence, pcount>>
\* the consumer's (producer's) part of the queue state; an operation on the
\* queue leaves the other subsystems alone
ConsumerSide == <<consumer_sequence_, cpc, cblocking, next_consume_sequence,
                  cevent, returned, lvars, bvars, dvars, cvars, mvars, xvars>>
ProducerSide == <<cursor_, ppc, pblocking, pevent, current_sequence,
                  next_sequence, pcount, published, written, overwrote, lvars,
                  bvars, dvars, cvars, mvars, xvars>>

\* number of events handed to the queue so far (published or being published)
RECURSIVE SumOver(_, _)
SumOver(f, S) ==
    IF S = {} THEN 0
    ELSE LET x == CHOOSE y \in S : TRUE IN f[x] + SumOver(f, S \ {x})

InFlight == Cardinality({ q \in Producers : ppc[q] # "idle" })
Handed == SumOver(pcount, Producers) + InFlight

\* try_publish(event) / publish(event) is called with the producer's next event
PublishCall(p) ==
    /\ ppc[p] = "idle"
    /\ Handed < MaxEvents
    /\ \E blocking \in BOOLEAN : pblocking' = [pblocking EXCEPT ![p] = blocking]
    /\ pevent' = [pevent EXCEPT ![p] = EventOf(p, pcount[p] + 1)]
    /\ ppc' = [ppc EXCEPT ![p] = "claim"]
    /\ UNCHANGED <<cursor_, buffer_, current_sequence, next_sequence, pcount,
                   published, written, overwrote>>
    /\ UNCHANGED ConsumerSide

\* claim_next_sequence: current_sequence = cursor_->get()
ClaimReadCursor(p) ==
    /\ ppc[p] = "claim"
    /\ current_sequence' = [current_sequence EXCEPT ![p] = cursor_]
    /\ next_sequence' = [next_sequence EXCEPT ![p] = cursor_ + 1]
    /\ ppc' = [ppc EXCEPT ![p] = "check"]
    /\ UNCHANGED <<cursor_, buffer_, pblocking, pevent, pcount, published,
                   written, overwrote>>
    /\ UNCHANGED ConsumerSide

\* claim_next_sequence: the two reads of consumer_sequence_ and the full test.
\* The second (fresh) read is a separate load; a producer that finds the ring
\* full on the first read moves to "recheck".
ClaimCheckCached(p) ==
    /\ ppc[p] = "check"
    /\ LET wrap_point == next_sequence[p] - capacity
       IN  ppc' = [ppc EXCEPT ![p] =
                     IF wrap_point > consumer_sequence_ THEN "recheck" ELSE "cas"]
    /\ UNCHANGED <<cursor_, buffer_, published, written, overwrote>>
    /\ UNCHANGED ProducerLocals
    /\ UNCHANGED ConsumerSide

\* claim_next_sequence without the test against the consumer sequence
ClaimCheckFreshUnchecked(p) ==
    /\ ppc[p] = "recheck"
    /\ ppc' = [ppc EXCEPT ![p] = "cas"]
    /\ UNCHANGED <<cursor_, buffer_, published, written, overwrote>>
    /\ UNCHANGED ProducerLocals
    /\ UNCHANGED ConsumerSide

\* fresh read; on a full ring claim_next_sequence returns -1: try_publish
\* returns false, publish yields and calls claim_next_sequence again
ClaimCheckFresh(p) ==
    /\ ppc[p] = "recheck"
    /\ LET wrap_point == next_sequence[p] - capacity
       IN  IF wrap_point > consumer_sequence_
           THEN ppc' = [ppc EXCEPT ![p] = IF pblocking[p] THEN "claim" ELSE "idle"]
           ELSE ppc' = [ppc EXCEPT ![p] = "cas"]
    /\ UNCHANGED <<cursor_, buffer_, published, written, overwrote>>
    /\ UNCHANGED ProducerLocals
    /\ UNCHANGED ConsumerSide

\* cursor_->compare_and_set(current_sequence, next_sequence); on failure the
\* function calls itself again
ClaimCas(p) ==
    /\ ppc[p] = "cas"
    /\ \/ /\ cursor_ = current_sequence[p]
          /\ cursor_' = next_sequence[p]
          /\ ppc' = [ppc EXCEPT ![p] = "store"]
       \/ \* compare_exchange_weak: another producer won, or a spurious failure
          /\ cursor_' = cursor_
          /\ ppc' = [ppc EXCEPT ![p] = "claim"]
    /\ UNCHANGED <<buffer_, published, written, overwrote>>
    /\ UNCHANGED ProducerLocals
    /\ UNCHANGED ConsumerSide

\* buffer_[index].store(event); publish_sequence (a fence only); return true
StoreAndReturn(p) ==
    /\ ppc[p] = "store"
    /\ LET index == SlotIndex(next_sequence[p])
           old == buffer_[index]
       IN  /\ buffer_' = [buffer_ EXCEPT ![index] = pevent[p]]
           /\ overwrote' = (overwrote \/
                  (/\ old # Null
                   /\ \A i \in 1..Len(returned) : returned[i][2] # old
                   /\ \A c \in Consumers :
                         ~(cpc[c] \in {"clear", "set"} /\ cevent[c] = old)))
    /\ written' = written \cup {next_sequence[p]}
    /\ published' = Append(published, pevent[p])
    /\ pcount' = [pcount EXCEPT ![p] = pcount[p] + 1]
    /\ ppc' = [ppc EXCEPT ![p] = "idle"]
    /\ UNCHANGED <<cursor_, pblocking, pevent, current_sequence, next_sequence>>
    /\ UNCHANGED ConsumerSide

\* try_consume() / consume(): next_consume_sequence = consumer_sequence_.get() + 1
ConsumeCall(c) ==
    /\ cpc[c] = "idle"
    /\ Len(returned) < MaxEvents
    /\ \E blocking \in BOOLEAN : cblocking' = [cblocking EXCEPT ![c] = blocking]
    /\ next_consume_sequence' =
           [next_consume_sequence EXCEPT ![c] = consumer_sequence_ + 1]
    /\ cpc' = [cpc EXCEPT ![c] = "wait"]
    /\ UNCHANGED <<consumer_sequence_, buffer_, cevent, returned>>
    /\ UNCHANGED ProducerSide

\* SequenceBarrier::try_wait_for (no dependency sequences are registered):
\* the cursor if it has reached the sequence, -1 otherwise
try_wait_for(sequence) == IF cursor_ < sequence THEN -1 ELSE cursor_

\* try_consume returns nullptr when the sequence is not available; consume
\* stays in wait_for until it is
ConsumeAvailable(c) ==
    /\ cpc[c] = "wait"
    /\ IF try_wait_for(next_consume_sequence[c]) < next_consume_sequence[c]
       THEN /\ ~cblocking[c]
            /\ cpc' = [cpc EXCEPT ![c] = "idle"]
       ELSE cpc' = [cpc EXCEPT ![c] = "load"]
    /\ UNCHANGED <<consumer_sequence_, buffer_, cblocking,
                   next_consume_sequence, cevent, returned>>
    /\ UNCHANGED ProducerSide

\* T event = buffer_[index].load()
ConsumeLoad(c) ==
    /\ cpc[c] = "load"
    /\ cevent' = [cevent EXCEPT ![c] = buffer_[SlotIndex(next_consume_sequence[c])]]
    /\ cpc' = [cpc EXCEPT ![c] = "clear"]
    /\ UNCHANGED <<consumer_sequence_, buffer_, cblocking,
                   next_consume_sequence, returned>>
    /\ UNCHANGED ProducerSide

\* buffer_[index].store(nullptr)
ConsumeClear(c) ==
    /\ cpc[c] = "clear"
    /\ buffer_' = [buffer_ EXCEPT ![SlotIndex(next_consume_sequence[c])] = Null]
    /\ cpc' = [cpc EXCEPT ![c] = "set"]
    /\ UNCHANGED <<consumer_sequence_, cblocking, next_consume_sequence,
                   cevent, returned>>
    /\ UNCHANGED ProducerSide

\* consumer_sequence_.set(next_consume_sequence); return event
ConsumeSetAndReturn(c) ==
    /\ cpc[c] = "set"
    /\ consumer_sequence_' = next_consume_sequence[c]
    /\ returned' = Append(returned, <<next_consume_sequence[c], cevent[c]>>)
    /\ cpc' = [cpc EXCEPT ![c] = "idle"]
    /\ UNCHANGED <<buffer_, cblocking, next_consume_sequence, cevent>>
    /\ UNCHANGED ProducerSide

\* try_consume(): next_consume_sequence = consumer_sequence_.get() + 1
TryConsumeCall(c) ==
    /\ cpc[c] = "idle"
    /\ Len(returned) < MaxEvents
    /\ cblocking' = [cblocking EXCEPT ![c] = FALSE]
    /\ next_consume_sequence' =
           [next_consume_sequence EXCEPT ![c] = consumer_sequence_ + 1]
    /\ cpc' = [cpc EXCEPT ![c] = "wait"]
    /\ UNCHANGED <<consumer_sequence_, buffer_, cevent, returned>>
    /\ UNCHANGED ProducerSide

ProducerStep(p) ==
    \/ PublishCall(p)
    \/ ClaimReadCursor(p)
    \/ ClaimCheckCached(p)
    \/ ClaimCheckFresh(p)
    \/ ClaimCas(p)
    \/ StoreAndReturn(p)

ConsumerStep(c) ==
    \/ ConsumeCall(c)
    \/ ConsumeAvailable(c)
    \/ ConsumeLoad(c)
    \/ ConsumeClear(c)
    \/ ConsumeSetAndReturn(c)

\* a worker thread that polls the bus with try_consume only
TryConsumerStep(c) ==
    \/ TryConsumeCall(c)
    \/ ConsumeAvailable(c)
    \/ ConsumeLoad(c)
    \/ ConsumeClear(c)
    \/ ConsumeSetAndReturn(c)

(***************************************************************************)
(* DisruptorQueue constructed from a caller's Config and then used by one  *)
(* thread, one call at a time.                                             *)
(***************************************************************************)
ConfiguredSizes == 0..MaxConfiguredSize

\* DisruptorQueue(config): the member initialisers compute buffer_mask_ and
\* allocate buffer_ from config_.buffer_size as configured; the body then
\* calls config_.validate(), which replaces config_.buffer_size.  For a
\* configured size of 0 the size_t subtraction wraps to all ones, which
\* BitAnd treats as -1 does: every bit of the sequence is kept.
Construct(n) ==
    [buffer_size |-> validate(n),
     buffer_mask_ |-> n - 1,
     buffer_ |-> [i \in 0..(n - 1) |-> Null],
     cursor_ |-> -1,
     consumer_sequence_ |-> -1]

\* the engine's bus: the configured size is the power of two of the model
CInit ==
    /\ ring = Construct(buffer_size)
    /\ accepted = <<>>
    /\ delivered = <<>>
    /\ crashed = FALSE
    /\ dequeued = <<>>

\* a queue built from any configured size
ConfigInit ==
    /\ \E n \in ConfiguredSizes : ring = Construct(n)
    /\ accepted = <<>>
    /\ delivered = <<>>
    /\ crashed = FALSE
    /\ dequeued = <<>>

\* index = static_cast<size_t>(sequence) & buffer_mask_
RingIndex(sequence) == BitAnd(sequence, ring.buffer_mask_)

InStorage(index) == index \in DOMAIN ring.buffer_

NotRing == <<qvars, lvars, bvars, dvars, mvars, xvars>>

\* try_publish(event) by the only thread: claim_next_sequence, store, return
RingTryPublish ==
    /\ ~crashed
    /\ Len(accepted) < MaxRingEvents
    /\ LET event == Len(accepted) + 1
           next == ring.cursor_ + 1
           wrap_point == next - ring.buffer_size
       IN  IF wrap_point > ring.consumer_sequence_
           THEN UNCHANGED cvars
           ELSE /\ InStorage(RingIndex(next))
                /\ ring' = [ring EXCEPT !.cursor_ = next,
                                        !.buffer_[RingIndex(next)] = event]
                /\ accepted' = Append(accepted, event)
                /\ UNCHANGED <<delivered, crashed>>
    /\ UNCHANGED dequeued
    /\ UNCHANGED NotRing

\* try_publish whose store falls outside buffer_ (undefined behaviour): the
\* process ends, or the store lands in memory that is no slot of the ring
RingPublishOutside ==
    /\ ~crashed
    /\ Len(accepted) < MaxRingEvents
    /\ LET next == ring.cursor_ + 1
       IN  /\ next - ring.buffer_size <= ring.consumer_sequence_
           /\ ~InStorage(RingIndex(next))
           /\ ring' = [ring EXCEPT !.cursor_ = next]
           /\ \/ /\ crashed' = TRUE
                 /\ UNCHANGED accepted
              \/ /\ accepted' = Append(accepted, Len(accepted) + 1)
                 /\ UNCHANGED crashed
    /\ UNCHANGED delivered
    /\ UNCHANGED dequeued
    /\ UNCHANGED NotRing

\* try_consume() by the only thread
RingTryConsume ==
    /\ ~crashed
    /\ LET next == ring.consumer_sequence_ + 1
       IN  IF ring.cursor_ < next
           THEN UNCHANGED cvars
           ELSE /\ InStorage(RingIndex(next))
                /\ delivered' = Append(delivered, ring.buffer_[RingIndex(next)])
                /\ ring' = [ring EXCEPT !.consumer_sequence_ = next,
                                        !.buffer_[RingIndex(next)] = Null]
                /\ UNCHANGED <<accepted, crashed>>
    /\ UNCHANGED dequeued
    /\ UNCHANGED NotRing

\* try_consume whose load falls outside buffer_ (undefined behaviour): the
\* process ends, or the load returns whatever that memory holds
RingConsumeOutside ==
    /\ ~crashed
    /\ LET next == ring.consumer_sequence_ + 1
       IN  /\ ring.cursor_ >= next
           /\ ~InStorage(RingIndex(next))
           /\ \/ /\ crashed' = TRUE
                 /\ UNCHANGED <<ring, delivered>>
              \/ /\ \E value \in {Null} \cup Range(accepted) :
                        delivered' = Append(delivered, value)
                 /\ ring' = [ring EXCEPT !.consumer_sequence_ = next]
                 /\ UNCHANGED crashed
    /\ UNCHANGED accepted
    /\ UNCHANGED dequeued
    /\ UNCHANGED NotRing

CNext ==
    \/ RingTryPublish
    \/ RingPublishOutside
    \/ RingTryConsume
    \/ RingConsumeOutside

(***************************************************************************)
(* Exact arithmetic for the ledger's double fields: a value is a fraction  *)
(* <<numerator, denominator>> in lowest terms with a positive denominator. *)
(***************************************************************************)
RECURSIVE Gcd(_, _)
Gcd(a, b) == IF b = 0 THEN a ELSE Gcd(b, a % b)

IAbs(i) == IF i < 0 THEN -i ELSE i

Frac(n, d) ==
    LET g == Gcd(IAbs(n), IAbs(d))
        sgn == IF d < 0 THEN -1 ELSE 1
    IN  <<sgn * (n \div g), sgn * (d \div g)>>

D(i) == <<i, 1>>
FAdd(a, b) == Frac(a[1] * b[2] + b[1] * a[2], a[2] * b[2])
FSub(a, b) == Frac(a[1] * b[2] - b[1] * a[2], a[2] * b[2])
FMul(a, b) == Frac(a[1] * b[1], a[2] * b[2])
FDiv(a, b) == Frac(a[1] * b[2], a[2] * b[1])
FAbs(a) == <<IAbs(a[1]), a[2]>>
FLess(a, b) == a[1] * b[2] < b[1] * a[2]
FMin(a, b) == IF FLess(b, a) THEN b ELSE a

\* the 1e-8 tolerance of the flat test and of the aggregate updates
EpsilonInverse == 100000000

\* std::abs(a) > 1e-8 and std::abs(a) < 1e-8, computed without forming a * 1e8
ExceedsEpsilon(a) == IAbs(a[1]) > a[2] \div EpsilonInverse
BelowEpsilon(a) ==
    \/ IAbs(a[1]) < a[2] \div EpsilonInverse
    \/ IAbs(a[1]) = a[2] \div EpsilonInverse /\ a[2] % EpsilonInverse > 0

(***************************************************************************)
(* Position (backend/cpp/position/position.h)                              *)
(***************************************************************************)
\* Position(symbol, initial_quantity, initial_price)
NewPosition(initial_quantity, initial_price) ==
    [quantity_ |-> initial_quantity,
     entry_price_ |-> initial_price,
     current_price_ |-> initial_price,
     unrealized_pnl_ |-> D(0),
     realized_pnl_ |-> D(0)]

is_long(pos) == FLess(D(0), pos.quantity_)
is_short(pos) == FLess(pos.quantity_, D(0))
is_flat(pos) == BelowEpsilon(pos.quantity_)
get_market_value(pos) == FAbs(FMul(pos.quantity_, pos.current_price_))

\* Position::update_pnl
update_pnl(pos, latest_price) ==
    [pos EXCEPT
       !.current_price_ = latest_price,
       !.unrealized_pnl_ =
           IF ExceedsEpsilon(pos.quantity_)
           THEN FMul(FSub(latest_price, pos.entry_price_), pos.quantity_)
           ELSE D(0)]

\* Position::adjust_position, the realized P&L of the closed portion
RealizedFromTrade(pos, quantity_delta, trade_price) ==
    LET current_qty == pos.quantity_
        position_closure ==
            /\ current_qty # D(0)
            /\ \/ FLess(D(0), current_qty) /\ FLess(quantity_delta, D(0))
               \/ FLess(current_qty, D(0)) /\ FLess(D(0), quantity_delta)
        closed_quantity == FMin(FAbs(quantity_delta), FAbs(current_qty))
    IN  IF position_closure
        THEN FMul(FMul(FSub(trade_price, pos.entry_price_), closed_quantity),
                  IF FLess(D(0), current_qty) THEN D(1) ELSE D(-1))
        ELSE D(0)

\* adjust_position that leaves unrealized_pnl_ as it is when the position
\* becomes flat
adjust_position_keeping_unrealized(pos, quantity_delta, trade_price) ==
    LET new_qty == FAdd(pos.quantity_, quantity_delta)
        realized == RealizedFromTrade(pos, quantity_delta, trade_price)
        withRealized == [pos EXCEPT !.realized_pnl_ = FAdd(@, realized)]
    IN  IF ExceedsEpsilon(new_qty)
        THEN update_pnl([withRealized EXCEPT !.quantity_ = new_qty],
                        pos.current_price_)
        ELSE [withRealized EXCEPT !.quantity_ = D(0)]

\* Position::adjust_position, the position after the call (one thread)
adjust_position(pos, quantity_delta, trade_price) ==
    LET current_qty == pos.quantity_
        current_entry == pos.entry_price_
        new_qty == FAdd(current_qty, quantity_delta)
        same_direction == ~FLess(FMul(current_qty, quantity_delta), D(0))
        realized == RealizedFromTrade(pos, quantity_delta, trade_price)
        withRealized == [pos EXCEPT !.realized_pnl_ = FAdd(@, realized)]
    IN  IF ExceedsEpsilon(new_qty)
        THEN LET new_entry ==
                    IF same_direction /\ FLess(FAbs(current_qty), FAbs(new_qty))
                    THEN FDiv(FAdd(FMul(current_qty, current_entry),
                                   FMul(quantity_delta, trade_price)), new_qty)
                    ELSE current_entry
                 moved == [withRealized EXCEPT !.quantity_ = new_qty,
                                               !.entry_price_ = new_entry]
             IN  update_pnl(moved, moved.current_price_)
        ELSE [withRealized EXCEPT !.quantity_ = D(0), !.unrealized_pnl_ = D(0)]

(***************************************************************************)
(* PositionManager (backend/cpp/position/position_manager.cpp)             *)
(***************************************************************************)
Symbols == {"AAPL", "MSFT"}
Quantities == {1, 2}
Prices == {10, 12}
Commissions == {0, 1}
initial_capital_ == 100

LInit ==
    /\ positions_ = <<>>
    /\ portfolio_stats_ =
           [available_cash |-> D(initial_capital_),
            total_equity |-> D(initial_capital_),
            total_market_value |-> D(0),
            total_unrealized_pnl |-> D(0),
            total_realized_pnl |-> D(0),
            total_positions |-> 0,
            long_positions |-> 0,
            short_positions |-> 0]
    /\ cached_total_equity_ = D(initial_capital_)
    /\ equity_cache_valid_ = TRUE
    /\ equity_curve_ = <<D(initial_capital_)>>
    /\ trade_history_ = 0
    /\ recent_fills = <<>>

\* PortfolioStatistics::atomic_add_double guarded by the 1e-8 test
AddIfSignificant(value, change) ==
    IF ExceedsEpsilon(change) THEN FAdd(value, change) ELSE value

\* operations applied so far (a bar on a held symbol appends to the equity curve)
LedgerOps == trade_history_ + Len(equity_curve_) - 1

\* PositionManager::get_total_equity, the value returned
get_total_equity ==
    IF equity_cache_valid_ THEN cached_total_equity_
    ELSE portfolio_stats_.total_equity

\* PositionManager::get_total_equity as a call: a miss refills the cache
GetTotalEquity ==
    /\ ~equity_cache_valid_
    /\ cached_total_equity_' = portfolio_stats_.total_equity
    /\ equity_cache_valid_' = TRUE
    /\ UNCHANGED <<positions_, portfolio_stats_, equity_curve_, trade_history_,
                   recent_fills>>
    /\ UNCHANGED <<qvars, bvars, dvars, cvars, mvars, xvars>>

\* PositionManager::on_market_data
on_market_data(symbol, close) ==
    IF symbol \in DOMAIN positions_
    THEN LET pos == positions_[symbol]
             old_market_value == get_market_value(pos)
             updated == update_pnl(pos, close)
             new_market_value == get_market_value(updated)
             market_value_change == FSub(new_market_value, old_market_value)
             significant == ExceedsEpsilon(market_value_change)
             stats == [portfolio_stats_ EXCEPT
                         !.total_market_value = AddIfSignificant(@, market_value_change),
                         !.total_equity = AddIfSignificant(@, market_value_change)]
             \* get_total_equity() called for the equity snapshot
             cache_valid == equity_cache_valid_ /\ ~significant
             current_equity == IF cache_valid THEN cached_total_equity_
                               ELSE stats.total_equity
         IN  /\ positions_' = [positions_ EXCEPT ![symbol] = updated]
             /\ portfolio_stats_' = stats
             /\ cached_total_equity_' = current_equity
             /\ equity_cache_valid_' = TRUE
             /\ equity_curve_' = Append(equity_curve_, current_equity)
             /\ recent_fills' = <<>>
             /\ UNCHANGED trade_history_
    ELSE UNCHANGED lvars

OnMarketData ==
    /\ LedgerOps < MaxLedgerOps
    /\ \E symbol \in Symbols, close \in Prices :
          /\ symbol \in DOMAIN positions_
          /\ on_market_data(symbol, D(close))
    /\ UNCHANGED <<qvars, bvars, dvars, cvars, mvars, xvars>>

\* a bar for a symbol without a position changes nothing
OnMarketDataNoPosition ==
    /\ \E symbol \in Symbols, close \in Prices :
          /\ symbol \notin DOMAIN positions_
          /\ on_market_data(symbol, D(close))
    /\ UNCHANGED <<qvars, bvars, dvars, cvars, mvars, xvars>>

\* PositionManager::update_position_on_fill_lockfree, the aggregates after
\* the call: before/position are the position before and after adjust_position
FillStatistics(stats_in, position_existed, before, position, realized_pnl_from_trade) ==
    LET old_market_value == IF position_existed THEN get_market_value(before) ELSE D(0)
        old_unrealized_pnl == IF position_existed THEN before.unrealized_pnl_ ELSE D(0)
        old_realized_pnl == IF position_existed THEN before.realized_pnl_ ELSE D(0)
        was_long == position_existed /\ is_long(before)
        was_short == position_existed /\ is_short(before)
        is_now_long == is_long(position)
        is_now_short == is_short(position)
        is_now_flat == is_flat(position)
        market_value_change == FSub(get_market_value(position), old_market_value)
        unrealized_pnl_change == FSub(position.unrealized_pnl_, old_unrealized_pnl)
        realized_pnl_change == FSub(position.realized_pnl_, old_realized_pnl)
        opened == ~position_existed /\ ~is_now_flat
        closed == position_existed /\ is_now_flat
        changed == position_existed /\ ~is_now_flat
    IN  [stats_in EXCEPT
           \* update_portfolio_statistics, then the total-equity update
           !.total_market_value = AddIfSignificant(@, market_value_change),
           \* realized P&L is added by update_portfolio_statistics and again by
           \* the P&L statistics block
           !.total_realized_pnl =
               AddIfSignificant(AddIfSignificant(@, realized_pnl_from_trade),
                                realized_pnl_change),
           !.total_unrealized_pnl = AddIfSignificant(@, unrealized_pnl_change),
           !.total_equity = AddIfSignificant(@, market_value_change),
           !.total_positions =
               IF opened THEN @ + 1 ELSE IF closed THEN @ - 1 ELSE @,
           !.long_positions =
               IF opened /\ is_now_long THEN @ + 1
               ELSE IF closed /\ was_long THEN @ - 1
               ELSE IF changed /\ was_long /\ is_now_short THEN @ - 1
               ELSE IF changed /\ was_short /\ is_now_long THEN @ + 1
               ELSE @,
           !.short_positions =
               IF opened /\ ~is_now_long /\ is_now_short THEN @ + 1
               ELSE IF closed /\ ~was_long /\ was_short THEN @ - 1
               ELSE IF changed /\ was_long /\ is_now_short THEN @ + 1
               ELSE IF changed /\ was_short /\ is_now_long THEN @ - 1
               ELSE @]

\* update_position_on_fill_lockfree that keeps a closed position in the map
update_position_on_fill_keeping_flat(stats_in, event) ==
    LET trade_quantity == FMul(event.quantity, IF event.is_buy THEN D(1) ELSE D(-1))
        position_existed == event.symbol \in DOMAIN positions_
    IN  \E before \in {IF position_existed THEN positions_[event.symbol]
                       ELSE NewPosition(D(0), D(0))} :
        \E position \in {adjust_position(before, trade_quantity, event.price)} :
          /\ positions_' =
                IF position_existed
                THEN [positions_ EXCEPT ![event.symbol] = position]
                ELSE positions_ @@ (event.symbol :> position)
          /\ portfolio_stats_' =
                FillStatistics(stats_in, position_existed, before, position,
                    RealizedFromTrade(before, trade_quantity, event.price))
          /\ equity_cache_valid_' = FALSE
          /\ UNCHANGED cached_total_equity_

\* PositionManager::update_position_on_fill_lockfree
update_position_on_fill_lockfree(stats_in, event) ==
    LET trade_quantity == FMul(event.quantity, IF event.is_buy THEN D(1) ELSE D(-1))
        position_existed == event.symbol \in DOMAIN positions_
    IN  \E before \in {IF position_existed THEN positions_[event.symbol]
                       ELSE NewPosition(D(0), D(0))} :
        \E position \in {adjust_position(before, trade_quantity, event.price)} :
          /\ positions_' =
                IF position_existed /\ is_flat(position)
                THEN \* remove_flat_position
                     [s \in (DOMAIN positions_) \ {event.symbol} |-> positions_[s]]
                ELSE IF position_existed
                     THEN [positions_ EXCEPT ![event.symbol] = position]
                     ELSE \* get_or_create_position
                          positions_ @@ (event.symbol :> position)
          /\ portfolio_stats_' =
                FillStatistics(stats_in, position_existed, before, position,
                    RealizedFromTrade(before, trade_quantity, event.price))
          /\ equity_cache_valid_' = FALSE
          /\ UNCHANGED cached_total_equity_

\* a fill as recorded in trade_history_, with what the ledger held when it
\* arrived
FoundByFill(event) ==
    [event |-> event,
     held |-> event.symbol \in DOMAIN positions_,
     available_cash |-> portfolio_stats_.available_cash,
     total_realized_pnl |-> portfolio_stats_.total_realized_pnl,
     total_unrealized_pnl |-> portfolio_stats_.total_unrealized_pnl]

\* the fill opens a round trip, completes the one just opened, or ends it
NoteFill(event) ==
    IF /\ event.is_buy
       /\ event.commission = D(0)
       /\ event.symbol \notin DOMAIN positions_
    THEN <<FoundByFill(event)>>
    ELSE IF /\ Len(recent_fills) = 1
            /\ event = [recent_fills[1].event EXCEPT !.is_buy = FALSE]
         THEN Append(recent_fills, FoundByFill(event))
         ELSE <<>>

\* PositionManager::on_trade_execution
on_trade_execution(event) ==
    LET direction == IF event.is_buy THEN D(-1) ELSE D(1)
        trade_value == FMul(event.quantity, event.price)
        cash_change == FSub(FMul(direction, trade_value), event.commission)
        stats == [portfolio_stats_ EXCEPT !.available_cash = FAdd(@, cash_change)]
    IN  /\ trade_history_' = trade_history_ + 1
        /\ recent_fills' = NoteFill(event)
        /\ update_position_on_fill_lockfree(stats, event)
        /\ UNCHANGED equity_curve_

OnTradeExecution ==
    /\ LedgerOps < MaxLedgerOps
    /\ \E symbol \in Symbols, quantity \in Quantities, price \in Prices,
          commission \in Commissions, is_buy \in BOOLEAN :
          on_trade_execution([symbol |-> symbol, quantity |-> D(quantity),
                              price |-> D(price), commission |-> D(commission),
                              is_buy |-> is_buy])
    /\ UNCHANGED <<qvars, bvars, dvars, cvars, mvars, xvars>>

\* the std::out_of_range that get_position_snapshot throws
out_of_range == [thrown |-> TRUE, snapshot |-> <<>>]

\* PositionManager::get_position_snapshot, the value returned or thrown
get_position_snapshot(symbol) ==
    IF symbol \in DOMAIN positions_
    THEN [thrown |-> FALSE, snapshot |-> <<positions_[symbol]>>]
    ELSE out_of_range

\* a symbol for which the ledger never receives a fill
UnknownSymbol == "GOOG"

\* PositionManager::get_position_snapshot as a call: a const member function
GetPositionSnapshot ==
    /\ \E symbol \in Symbols \cup {UnknownSymbol} :
          \E result \in {get_position_snapshot(symbol)} :
              result = out_of_range <=> symbol \notin DOMAIN positions_
    /\ UNCHANGED lvars
    /\ UNCHANGED <<qvars, bvars, dvars, cvars, mvars, xvars>>

LNext ==
    \/ OnTradeExecution
    \/ OnMarketData
    \/ OnMarketDataNoPosition
    \/ GetTotalEquity
    \/ GetPositionSnapshot

(***************************************************************************)
(* LockFreeOrderBook and PriceLevel.  Prices are integers in units of half *)
(* a tick, quantities are integers; an Order object is an entry of orders_ *)
(* and a level's linked list (head_, next) is the sequence chain of the    *)
(* entries' positions, head first.  Statistics counters are left out.      *)
(***************************************************************************)
OrderIds == {1, 2}
Sides == {"BUY", "SELL"}
BookPrices == {2, 3, 4}
BookQuantities == {1, 2}
PriceBounds == {0, 3}
\* (price, quantity) arguments of add_order: the valid ones, and one with a
\* price and one with a quantity that the validation rejects (<= 0.0)
AddArguments == (BookPrices \X BookQuantities) \cup {<<0, 1>>, <<2, 0>>}

\* Config::tick_size
tick_size == 2

\* round_to_tick: std::round(price / tick_size) * tick_size, halves away
\* from zero (prices are positive here)
round_to_tick(price) == ((2 * price + tick_size) \div (2 * tick_size)) * tick_size

\* Order::Order
NewOrder(id, s, p, q) ==
    [order_id |-> id, side |-> s, price |-> p, quantity |-> q,
     original_quantity |-> q, status |-> "ACTIVE"]

\* PriceLevel::PriceLevel
NewPriceLevel(price) ==
    [price_ |-> price, chain |-> <<>>, total_quantity_ |-> 0, order_count_ |-> 0]

\* MatchResult default member initialisers
EmptyMatchResult ==
    [matched_quantity |-> 0, average_price |-> D(0), orders_matched |-> 0,
     fully_filled |-> FALSE]

\* the book object as one value, so that one call can be built from others
Book ==
    [orders_ |-> orders_, bid_levels_ |-> bid_levels_,
     ask_levels_ |-> ask_levels_, order_lookup_ |-> order_lookup_,
     next_order_id_ |-> next_order_id_, cache_valid_ |-> cache_valid_]

SetBook(b) ==
    /\ orders_' = b.orders_
    /\ bid_levels_' = b.bid_levels_
    /\ ask_levels_' = b.ask_levels_
    /\ order_lookup_' = b.order_lookup_
    /\ next_order_id_' = b.next_order_id_
    /\ cache_valid_' = b.cache_valid_

BInit ==
    /\ orders_ = <<>>
    /\ bid_levels_ = <<>>
    /\ ask_levels_ = <<>>
    /\ order_lookup_ = <<>>
    /\ next_order_id_ = 1
    /\ cache_valid_ = FALSE
    /\ match_result = EmptyMatchResult
    /\ returned_value = FALSE
    /\ book_ops = 0

\* std::map operator[] / assignment
Put(f, k, v) == [x \in (DOMAIN f) \cup {k} |-> IF x = k THEN v ELSE f[x]]
\* std::map::erase
Erase(f, k) == [x \in (DOMAIN f) \ {k} |-> f[x]]

LevelsOf(b, side) == IF side = "BUY" THEN b.bid_levels_ ELSE b.ask_levels_
WithLevels(b, side, levels) ==
    IF side = "BUY" THEN [b EXCEPT !.bid_levels_ = levels]
    ELSE [b EXCEPT !.ask_levels_ = levels]

\* get_or_create_price_level: the ladder with a level at price
get_or_create_price_level(b, side, price) ==
    IF price \in DOMAIN LevelsOf(b, side) THEN b
    ELSE WithLevels(b, side, Put(LevelsOf(b, side), price, NewPriceLevel(price)))

\* Order::is_active
is_active(o) ==
    o.status \in {"ACTIVE", "PARTIALLY_FILLED"} /\ o.quantity > 0

\* PriceLevel::has_orders; order_count_ is unsigned, so a count that was
\* decremented below zero is a large positive number
has_orders(level) == level.order_count_ # 0 /\ level.total_quantity_ > 0

\* PriceLevel::add_order: the new order becomes the head of the list
PriceLevel_add_order(level, order, pos) ==
    IF order.price # level.price_
    THEN [level |-> level, ok |-> FALSE]
    ELSE [level |-> [level EXCEPT !.chain = <<pos>> \o @,
                                  !.total_quantity_ = @ + order.quantity,
                                  !.order_count_ = @ + 1],
          ok |-> TRUE]

\* LockFreeOrderBook::add_order
add_order(b, order_id, side, price, quantity) ==
    IF quantity <= 0 \/ price <= 0 THEN [book |-> b, ok |-> FALSE]
    ELSE LET rounded_price == round_to_tick(price)
             b1 == get_or_create_price_level(b, side, rounded_price)
             order == NewOrder(order_id, side, rounded_price, quantity)
             pos == Len(b.orders_) + 1
             added == PriceLevel_add_order(LevelsOf(b1, side)[rounded_price],
                                           order, pos)
         IN  IF ~added.ok THEN [book |-> b1, ok |-> FALSE]
             ELSE [book |->
                     [WithLevels(b1, side,
                                 Put(LevelsOf(b1, side), rounded_price, added.level))
                        EXCEPT !.orders_ = Append(@, order),
                               !.order_lookup_ =
                                   Put(@, order_id,
                                       [side |-> side, price |-> rounded_price]),
                               !.cache_valid_ = FALSE],
                   ok |-> TRUE]

NotBook == <<qvars, lvars, dvars, cvars, mvars, xvars>>
\* a call made by a single thread runs to completion
OutsideBook == <<NotBook, rvars>>

AddOrder ==
    /\ book_ops < MaxBookOps
    /\ \E order_id \in OrderIds, side \in Sides, pq \in AddArguments :
          \E r \in {add_order(Book, order_id, side, pq[1], pq[2])} :
              /\ SetBook(r.book)
              /\ returned_value' = r.ok
    /\ book_ops' = book_ops + 1
    /\ UNCHANGED match_result
    /\ UNCHANGED OutsideBook

Min(a, b) == IF a < b THEN a ELSE b

\* Order::try_fill by a single thread: the quantity compare-exchange and the
\* status compare-exchange meet the values just loaded
try_fill(o, fill_quantity) ==
    IF o.quantity > 0 /\ fill_quantity > 0
    THEN LET actual_fill == Min(o.quantity, fill_quantity)
             new_qty == o.quantity - actual_fill
         IN  [order |-> [o EXCEPT !.quantity = new_qty,
                                  !.status = IF new_qty = 0 THEN "FULLY_FILLED"
                                             ELSE "PARTIALLY_FILLED"],
              filled |-> actual_fill]
    ELSE [order |-> o, filled |-> 0]

\* PriceLevel::is_opposite_side
is_opposite_side(order_side, incoming_side) == order_side # incoming_side

\* PriceLevel::match_orders, the walk from head_ along next
RECURSIVE WalkChain(_, _, _, _, _)
WalkChain(chain, ords, side, remaining_quantity, total_matched) ==
    IF chain = <<>> \/ remaining_quantity <= 0
    THEN [orders |-> ords, matched |-> total_matched]
    ELSE LET current == Head(chain)
         IN  IF is_opposite_side(ords[current].side, side) /\ is_active(ords[current])
             THEN LET f == try_fill(ords[current], remaining_quantity)
                  IN  WalkChain(Tail(chain), [ords EXCEPT ![current] = f.order],
                                side, remaining_quantity - f.filled,
                                total_matched + f.filled)
             ELSE WalkChain(Tail(chain), ords, side, remaining_quantity,
                            total_matched)

\* PriceLevel::match_orders
match_orders(level, ords, side, quantity, max_price, min_price) ==
    IF side = "BUY" /\ max_price > 0 /\ level.price_ > max_price
    THEN [level |-> level, orders |-> ords, matched |-> 0]
    ELSE IF side = "SELL" /\ min_price > 0 /\ level.price_ < min_price
    THEN [level |-> level, orders |-> ords, matched |-> 0]
    ELSE LET w == WalkChain(level.chain, ords, side, quantity, 0)
         IN  [level |-> [level EXCEPT !.total_quantity_ = @ - w.matched],
              orders |-> w.orders, matched |-> w.matched]

\* iteration order of AskLevels (std::less) and BidLevels (std::greater)
RECURSIVE Ascending(_)
Ascending(S) ==
    IF S = {} THEN <<>>
    ELSE LET m == CHOOSE x \in S : \A y \in S : x <= y
         IN  <<m>> \o Ascending(S \ {m})

RECURSIVE Descending(_)
Descending(S) ==
    IF S = {} THEN <<>>
    ELSE LET m == CHOOSE x \in S : \A y \in S : x >= y
         IN  <<m>> \o Descending(S \ {m})

\* match_market_order, the loop over the opposite ladder; acc carries
\* result.matched_quantity, total_value, result.orders_matched and the
\* remaining quantity
RECURSIVE MatchLevels(_, _, _, _, _, _, _)
MatchLevels(prices, levels, ords, side, max_price, min_price, acc) ==
    IF prices = <<>> \/ acc.remaining_quantity <= 0
    THEN [levels |-> levels, orders |-> ords, acc |-> acc]
    ELSE LET price == Head(prices)
         IN  IF side = "BUY" /\ max_price > 0 /\ price > max_price
             THEN [levels |-> levels, orders |-> ords, acc |-> acc]
             ELSE IF side = "SELL" /\ min_price > 0 /\ price < min_price
             THEN [levels |-> levels, orders |-> ords, acc |-> acc]
             ELSE IF ~has_orders(levels[price])
             THEN MatchLevels(Tail(prices), levels, ords, side, max_price,
                              min_price, acc)
             ELSE LET m == match_orders(levels[price], ords, side,
                                        acc.remaining_quantity, max_price, min_price)
                  IN  MatchLevels(Tail(prices),
                          [levels EXCEPT ![price] = m.level], m.orders, side,
                          max_price, min_price,
                          IF m.matched > 0
                          THEN [matched_quantity |-> acc.matched_quantity + m.matched,
                                total_value |-> acc.total_value + m.matched * price,
                                remaining_quantity |-> acc.remaining_quantity - m.matched,
                                orders_matched |-> acc.orders_matched + 1]
                          ELSE acc)

\* LockFreeOrderBook::match_market_order
match_market_order(b, side, quantity, max_price, min_price) ==
    LET opposite == IF side = "BUY" THEN "SELL" ELSE "BUY"
        levels == LevelsOf(b, opposite)
        prices == IF side = "BUY" THEN Ascending(DOMAIN levels)
                  ELSE Descending(DOMAIN levels)
        m == MatchLevels(prices, levels, b.orders_, side, max_price, min_price,
                         [matched_quantity |-> 0, total_value |-> 0,
                          remaining_quantity |-> quantity, orders_matched |-> 0])
        hit == m.acc.matched_quantity > 0
    IN  [book |-> [WithLevels(b, opposite, m.levels)
                     EXCEPT !.orders_ = m.orders,
                            !.cache_valid_ = IF hit THEN FALSE ELSE @],
         result |->
            [matched_quantity |-> m.acc.matched_quantity,
             average_price |-> IF hit THEN Frac(m.acc.total_value,
                                                m.acc.matched_quantity)
                               ELSE D(0),
             orders_matched |-> m.acc.orders_matched,
             fully_filled |-> hit /\ m.acc.remaining_quantity <= 0]]

\* LockFreeOrderBook::match_limit_order
match_limit_order(b, order_id, side, price, quantity) ==
    LET m == IF side = "BUY" THEN match_market_order(b, side, quantity, price, 0)
             ELSE match_market_order(b, side, quantity, 0, price)
        remaining_quantity == quantity - m.result.matched_quantity
    IN  IF remaining_quantity > 0
        THEN [book |-> add_order(m.book, order_id, side, price,
                                 remaining_quantity).book,
              result |-> m.result]
        ELSE [book |-> m.book,
              result |-> [m.result EXCEPT !.fully_filled = TRUE]]

MatchMarketOrder ==
    /\ book_ops < MaxBookOps
    /\ \E side \in Sides, quantity \in BookQuantities,
          max_price \in PriceBounds, min_price \in PriceBounds :
          \E r \in {match_market_order(Book, side, quantity, max_price, min_price)} :
              /\ SetBook(r.book)
              /\ match_result' = r.result
    /\ book_ops' = book_ops + 1
    /\ UNCHANGED returned_value
    /\ UNCHANGED OutsideBook

MatchLimitOrder ==
    /\ book_ops < MaxBookOps
    /\ \E order_id \in OrderIds, side \in Sides, price \in BookPrices,
          quantity \in BookQuantities :
          \E r \in {match_limit_order(Book, order_id, side, price, quantity)} :
              /\ SetBook(r.book)
              /\ match_result' = r.result
    /\ book_ops' = book_ops + 1
    /\ UNCHANGED returned_value
    /\ UNCHANGED OutsideBook

\* PriceLevel::remove_order: the first order of the list that carries the id,
\* whatever its status; the order stays in the list and keeps its quantity
remove_order(level, ords, order_id) ==
    LET hits == { i \in 1..Len(level.chain) : ords[level.chain[i]].order_id = order_id }
    IN  IF hits = {} THEN [level |-> level, orders |-> ords, removed |-> FALSE]
        ELSE LET first == CHOOSE i \in hits : \A j \in hits : i <= j
                 current == level.chain[first]
                 removed_quantity == ords[current].quantity
             IN  [level |-> [level EXCEPT !.total_quantity_ = @ - removed_quantity,
                                          !.order_count_ = @ - 1],
                  orders |-> [ords EXCEPT ![current].status = "CANCELLED"],
                  removed |-> TRUE]

\* LockFreeOrderBook::cancel_order
cancel_order(b, order_id) ==
    IF order_id \notin DOMAIN b.order_lookup_ THEN [book |-> b, ok |-> FALSE]
    ELSE LET order_info == b.order_lookup_[order_id]
             levels == LevelsOf(b, order_info.side)
         IN  IF order_info.price \notin DOMAIN levels
             THEN [book |-> b, ok |-> FALSE]
             ELSE LET r == remove_order(levels[order_info.price], b.orders_,
                                        order_id)
                  IN  IF ~r.removed THEN [book |-> b, ok |-> FALSE]
                      ELSE [book |->
                              [WithLevels(b, order_info.side,
                                          [levels EXCEPT ![order_info.price] = r.level])
                                 EXCEPT !.orders_ = r.orders,
                                        !.order_lookup_ = Erase(@, order_id),
                                        !.cache_valid_ = FALSE],
                            ok |-> TRUE]

\* modify_order with the quantity validated by add_order only, after the
\* original order has been cancelled
modify_order_cancel_first(b, order_id, new_quantity, new_price) ==
    IF order_id \notin DOMAIN b.order_lookup_ THEN [book |-> b, ok |-> FALSE]
    ELSE LET order_info == b.order_lookup_[order_id]
             target_price == IF new_price > 0 THEN new_price ELSE order_info.price
             c == cancel_order(b, order_id)
         IN  IF ~c.ok THEN [book |-> c.book, ok |-> FALSE]
             ELSE LET new_order_id == c.book.next_order_id_
                      a == add_order([c.book EXCEPT !.next_order_id_ = @ + 1],
                                     new_order_id, order_info.side, target_price,
                                     new_quantity)
                  IN  IF ~a.ok THEN [book |-> a.book, ok |-> FALSE]
                      ELSE [book |->
                              [a.book EXCEPT !.order_lookup_ =
                                  Put(@, order_id, [side |-> order_info.side,
                                                    price |-> target_price])],
                            ok |-> TRUE]

\* LockFreeOrderBook::modify_order: cancel, then add under a generated id,
\* then point the caller's id at the target price
modify_order(b, order_id, new_quantity, new_price) ==
    IF order_id \notin DOMAIN b.order_lookup_ THEN [book |-> b, ok |-> FALSE]
    ELSE IF new_quantity <= 0 THEN [book |-> b, ok |-> FALSE]
    ELSE LET order_info == b.order_lookup_[order_id]
             target_price == IF new_price > 0 THEN new_price ELSE order_info.price
             c == cancel_order(b, order_id)
         IN  IF ~c.ok THEN [book |-> c.book, ok |-> FALSE]
             ELSE LET new_order_id == c.book.next_order_id_
                      a == add_order([c.book EXCEPT !.next_order_id_ = @ + 1],
                                     new_order_id, order_info.side, target_price,
                                     new_quantity)
                  IN  IF ~a.ok THEN [book |-> a.book, ok |-> FALSE]
                      ELSE [book |->
                              [a.book EXCEPT !.order_lookup_ =
                                  Put(@, order_id, [side |-> order_info.side,
                                                    price |-> target_price])],
                            ok |-> TRUE]

CancelOrder ==
    /\ book_ops < MaxBookOps
    /\ \E order_id \in OrderIds :
          \E r \in {cancel_order(Book, order_id)} :
              /\ SetBook(r.book)
              /\ returned_value' = r.ok
    /\ book_ops' = book_ops + 1
    /\ UNCHANGED match_result
    /\ UNCHANGED OutsideBook

ModifyOrder ==
    /\ book_ops < MaxBookOps
    /\ \E order_id \in OrderIds,
          new_quantity \in BookQuantities \cup {0},
          new_price \in BookPrices \cup {0} :
          \E r \in {modify_order(Book, order_id, new_quantity, new_price)} :
              /\ SetBook(r.book)
              /\ returned_value' = r.ok
    /\ book_ops' = book_ops + 1
    /\ UNCHANGED match_result
    /\ UNCHANGED OutsideBook

\* get_best_bid / get_best_ask: cache_valid_ is only ever stored false, so
\* every call takes the recomputing path; 0 when no level has orders
get_best_bid ==
    LET live == { p \in DOMAIN bid_levels_ : has_orders(bid_levels_[p]) }
    IN  IF live = {} THEN 0 ELSE CHOOSE p \in live : \A q \in live : p >= q

get_best_ask ==
    LET live == { p \in DOMAIN ask_levels_ : has_orders(ask_levels_[p]) }
    IN  IF live = {} THEN 0 ELSE CHOOSE p \in live : \A q \in live : p <= q

(***************************************************************************)
(* match_market_order and cancel_order run by concurrent threads, one      *)
(* atomic access per step.  The callers pass no price bound, as the        *)
(* execution simulator does.  A walk along next pointers sees the list as  *)
(* it was when head_ was loaded, because orders are only ever inserted at  *)
(* the head and never unlinked.                                            *)
(***************************************************************************)
\* the threads meet on one ask level
RaceSides == {"SELL"}
RacePrices == {2}

Matchers == {"m1"}
Cancellers == {"x1"}

IdleMatch ==
    [side |-> "BUY", remaining_quantity |-> 0, total_value |-> 0,
     matched_quantity |-> 0, orders_matched |-> 0, prices |-> <<>>,
     price |-> 0, chain |-> <<>>, level_remaining |-> 0, total_matched |-> 0,
     current_qty |-> 0, expected_status |-> "ACTIVE", matched |-> 0,
     started_after |-> {}]

IdleCancel ==
    [order_id |-> 0, order_info |-> [side |-> "BUY", price |-> 0],
     current |-> 0, removed_quantity |-> 0]

RInit ==
    /\ mpc = [t \in Matchers |-> "idle"]
    /\ mlocal = [t \in Matchers |-> IdleMatch]
    /\ xpc = [x \in Cancellers |-> "idle"]
    /\ xlocal = [x \in Cancellers |-> IdleCancel]
    /\ cancel_returned = {}
    /\ filled_after_cancel = FALSE

AllIdle ==
    /\ \A t \in Matchers : mpc[t] = "idle"
    /\ \A x \in Cancellers : xpc[x] = "idle"

OppositeOf(side) == IF side = "BUY" THEN "SELL" ELSE "BUY"

MatchSide == <<mpc, mlocal, match_result>>
CancelSide == <<xpc, xlocal, returned_value, cancel_returned>>
Ladders == <<bid_levels_, ask_levels_>>

\* add_order called while no other call is in progress
RaceAddOrder ==
    /\ AllIdle
    /\ book_ops < MaxRaceOps
    /\ \E order_id \in OrderIds, side \in RaceSides, price \in RacePrices,
          quantity \in BookQuantities :
          \E r \in {add_order(Book, order_id, side, price, quantity)} :
              /\ SetBook(r.book)
              /\ returned_value' = r.ok
    /\ book_ops' = book_ops + 1
    /\ UNCHANGED <<match_result, rvars, NotBook>>

\* match_market_order(side, quantity) is entered: the loop over the opposite
\* ladder starts under its shared lock
MatchBegin(t) ==
    /\ mpc[t] = "idle"
    /\ book_ops < MaxRaceOps
    /\ \E side \in Sides, quantity \in BookQuantities :
          mlocal' = [mlocal EXCEPT ![t] =
              [IdleMatch EXCEPT
                  !.side = side,
                  !.remaining_quantity = quantity,
                  !.prices = IF side = "BUY" THEN Ascending(DOMAIN ask_levels_)
                             ELSE Descending(DOMAIN bid_levels_),
                  !.started_after = cancel_returned]]
    /\ mpc' = [mpc EXCEPT ![t] = "level"]
    /\ book_ops' = book_ops + 1
    /\ UNCHANGED <<orders_, Ladders, order_lookup_, next_order_id_,
                   cache_valid_, match_result, filled_after_cancel>>
    /\ UNCHANGED <<CancelSide, NotBook>>

\* the loop has ended: average price, fully_filled, cache invalidation, return
MatchReturn(t) ==
    LET l == mlocal[t]
        hit == l.matched_quantity > 0
    IN  /\ mpc[t] = "level"
        /\ l.prices = <<>> \/ l.remaining_quantity <= 0
        /\ match_result' =
              [matched_quantity |-> l.matched_quantity,
               average_price |-> IF hit THEN Frac(l.total_value, l.matched_quantity)
                                 ELSE D(0),
               orders_matched |-> l.orders_matched,
               fully_filled |-> hit /\ l.remaining_quantity <= 0]
        /\ cache_valid_' = IF hit THEN FALSE ELSE cache_valid_
        /\ mpc' = [mpc EXCEPT ![t] = "idle"]
        /\ mlocal' = [mlocal EXCEPT ![t] = IdleMatch]
        /\ UNCHANGED <<orders_, Ladders, order_lookup_, next_order_id_,
                       book_ops, filled_after_cancel>>
        /\ UNCHANGED <<CancelSide, NotBook>>

\* one iteration of the loop: level->has_orders(), then match_orders loads head_
MatchLevel(t) ==
    LET l == mlocal[t]
        price == Head(l.prices)
        level == LevelsOf(Book, OppositeOf(l.side))[price]
    IN  /\ mpc[t] = "level"
        /\ l.prices # <<>> /\ l.remaining_quantity > 0
        /\ IF has_orders(level)
           THEN /\ mlocal' = [mlocal EXCEPT ![t] =
                       [l EXCEPT !.price = price, !.chain = level.chain,
                                 !.level_remaining = l.remaining_quantity,
                                 !.total_matched = 0]]
                /\ mpc' = [mpc EXCEPT ![t] = "walk"]
           ELSE /\ mlocal' = [mlocal EXCEPT ![t] = [l EXCEPT !.prices = Tail(@)]]
                /\ UNCHANGED mpc
        /\ UNCHANGED <<orders_, Ladders, order_lookup_, next_order_id_,
                       cache_valid_, match_result, book_ops, filled_after_cancel>>
        /\ UNCHANGED <<CancelSide, NotBook>>

\* match_orders has walked the list or has nothing left to match: it returns
\* total_matched and the loop accounts for the level
MatchLevelDone(t) ==
    LET l == mlocal[t]
        got == l.total_matched > 0
    IN  /\ mpc[t] = "walk"
        /\ l.chain = <<>> \/ l.level_remaining <= 0
        /\ mlocal' = [mlocal EXCEPT ![t] =
              [l EXCEPT !.prices = Tail(@),
                        !.matched_quantity = @ + l.total_matched,
                        !.total_value = @ + l.total_matched * l.price,
                        !.remaining_quantity = @ - l.total_matched,
                        !.orders_matched = IF got THEN @ + 1 ELSE @,
                        !.chain = <<>>, !.price = 0, !.level_remaining = 0,
                        !.total_matched = 0]]
        /\ mpc' = [mpc EXCEPT ![t] = "level"]
        /\ UNCHANGED <<orders_, Ladders, order_lookup_, next_order_id_,
                       cache_valid_, match_result, book_ops, filled_after_cancel>>
        /\ UNCHANGED <<CancelSide, NotBook>>

\* match_orders: is_opposite_side(current->side, side) && current->is_active()
MatchWalk(t) ==
    LET l == mlocal[t]
        current == Head(l.chain)
    IN  /\ mpc[t] = "walk"
        /\ l.chain # <<>> /\ l.level_remaining > 0
        /\ IF is_opposite_side(orders_[current].side, l.side)
                /\ is_active(orders_[current])
           THEN /\ mpc' = [mpc EXCEPT ![t] = "fill_load"]
                /\ UNCHANGED mlocal
           ELSE /\ mlocal' = [mlocal EXCEPT ![t] = [l EXCEPT !.chain = Tail(@)]]
                /\ UNCHANGED mpc
        /\ UNCHANGED <<orders_, Ladders, order_lookup_, next_order_id_,
                       cache_valid_, match_result, book_ops, filled_after_cancel>>
        /\ UNCHANGED <<CancelSide, NotBook>>

\* try_fill: current_qty = quantity.load(); the loop is entered when it is
\* positive, otherwise try_fill returns 0 and the walk moves on
FillLoad(t) ==
    LET l == mlocal[t]
        current == Head(l.chain)
        current_qty == orders_[current].quantity
    IN  /\ mpc[t] = "fill_load"
        /\ IF current_qty > 0
           THEN /\ mlocal' = [mlocal EXCEPT ![t] =
                       [l EXCEPT !.current_qty = current_qty]]
                /\ mpc' = [mpc EXCEPT ![t] = "fill_cas"]
           ELSE /\ mlocal' = [mlocal EXCEPT ![t] = [l EXCEPT !.chain = Tail(@)]]
                /\ mpc' = [mpc EXCEPT ![t] = "walk"]
        /\ UNCHANGED <<orders_, Ladders, order_lookup_, next_order_id_,
                       cache_valid_, match_result, book_ops, filled_after_cancel>>
        /\ UNCHANGED <<CancelSide, NotBook>>

\* try_fill: quantity.compare_exchange_weak(current_qty, new_qty); a failed
\* exchange reloads current_qty and the loop tests it again.  A spurious
\* failure repeats the step with the same values.
FillCas(t) ==
    LET l == mlocal[t]
        current == Head(l.chain)
        actual_fill == Min(l.current_qty, l.level_remaining)
        new_qty == l.current_qty - actual_fill
        seen == orders_[current].quantity
    IN  /\ mpc[t] = "fill_cas"
        /\ IF seen = l.current_qty
           THEN /\ orders_' = [orders_ EXCEPT ![current].quantity = new_qty]
                /\ mlocal' = [mlocal EXCEPT ![t] = [l EXCEPT !.matched = actual_fill]]
                /\ mpc' = [mpc EXCEPT ![t] = "status_load"]
                /\ filled_after_cancel' =
                      (filled_after_cancel \/ current \in l.started_after)
           ELSE /\ IF seen > 0
                   THEN /\ mlocal' = [mlocal EXCEPT ![t] =
                               [l EXCEPT !.current_qty = seen]]
                        /\ UNCHANGED mpc
                   ELSE /\ mlocal' = [mlocal EXCEPT ![t] =
                               [l EXCEPT !.chain = Tail(@), !.current_qty = 0]]
                        /\ mpc' = [mpc EXCEPT ![t] = "walk"]
                /\ UNCHANGED <<orders_, filled_after_cancel>>
        /\ UNCHANGED <<Ladders, order_lookup_, next_order_id_, cache_valid_,
                       match_result, book_ops>>
        /\ UNCHANGED <<CancelSide, NotBook>>

\* try_fill: expected_status = status.load()
StatusLoad(t) ==
    LET l == mlocal[t]
        current == Head(l.chain)
    IN  /\ mpc[t] = "status_load"
        /\ mlocal' = [mlocal EXCEPT ![t] =
              [l EXCEPT !.expected_status = orders_[current].status]]
        /\ mpc' = [mpc EXCEPT ![t] = "status_cas"]
        /\ UNCHANGED <<orders_, Ladders, order_lookup_, next_order_id_,
                       cache_valid_, match_result, book_ops, filled_after_cancel>>
        /\ UNCHANGED <<CancelSide, NotBook>>

\* try_fill: status.compare_exchange_weak(expected_status, new_status), not
\* retried when it fails (it may fail spuriously); return actual_fill, which
\* match_orders adds to total_matched
StatusCas(t) ==
    LET l == mlocal[t]
        current == Head(l.chain)
        new_qty == l.current_qty - l.matched
        new_status == IF new_qty = 0 THEN "FULLY_FILLED" ELSE "PARTIALLY_FILLED"
    IN  /\ mpc[t] = "status_cas"
        /\ \E exchanged \in (IF orders_[current].status = l.expected_status
                             THEN BOOLEAN ELSE {FALSE}) :
              orders_' = IF exchanged
                         THEN [orders_ EXCEPT ![current].status = new_status]
                         ELSE orders_
        /\ mlocal' = [mlocal EXCEPT ![t] =
              [l EXCEPT !.total_matched = @ + l.matched,
                        !.level_remaining = @ - l.matched,
                        !.current_qty = 0, !.expected_status = "ACTIVE"]]
        /\ mpc' = [mpc EXCEPT ![t] = "sub_total"]
        /\ UNCHANGED <<Ladders, order_lookup_, next_order_id_, cache_valid_,
                       match_result, book_ops, filled_after_cancel>>
        /\ UNCHANGED <<CancelSide, NotBook>>

\* match_orders: total_quantity_.fetch_sub(matched); current = current->next
SubTotal(t) ==
    LET l == mlocal[t]
        opposite == OppositeOf(l.side)
        levels == LevelsOf(Book, opposite)
        b == WithLevels(Book, opposite,
                 [levels EXCEPT ![l.price].total_quantity_ = @ - l.matched])
    IN  /\ mpc[t] = "sub_total"
        /\ bid_levels_' = b.bid_levels_
        /\ ask_levels_' = b.ask_levels_
        /\ mlocal' = [mlocal EXCEPT ![t] =
              [l EXCEPT !.chain = Tail(@), !.matched = 0]]
        /\ mpc' = [mpc EXCEPT ![t] = "walk"]
        /\ UNCHANGED <<orders_, order_lookup_, next_order_id_, cache_valid_,
                       match_result, book_ops, filled_after_cancel>>
        /\ UNCHANGED <<CancelSide, NotBook>>

MatchStep(t) ==
    \/ MatchBegin(t) \/ MatchReturn(t) \/ MatchLevel(t) \/ MatchLevelDone(t)
    \/ MatchWalk(t) \/ FillLoad(t) \/ FillCas(t) \/ StatusLoad(t)
    \/ StatusCas(t) \/ SubTotal(t)

\* cancel_order(order_id) is entered: order_lookup_.find under the shared lock
CancelBegin(x) ==
    /\ xpc[x] = "idle"
    /\ book_ops < MaxRaceOps
    /\ \E order_id \in OrderIds :
          IF order_id \in DOMAIN order_lookup_
          THEN /\ xlocal' = [xlocal EXCEPT ![x] =
                      [IdleCancel EXCEPT !.order_id = order_id,
                                         !.order_info = order_lookup_[order_id]]]
               /\ xpc' = [xpc EXCEPT ![x] = "find"]
               /\ UNCHANGED returned_value
          ELSE /\ returned_value' = FALSE
               /\ UNCHANGED <<xpc, xlocal>>
    /\ book_ops' = book_ops + 1
    /\ UNCHANGED <<orders_, Ladders, order_lookup_, next_order_id_,
                   cache_valid_, cancel_returned, filled_after_cancel>>
    /\ UNCHANGED <<MatchSide, NotBook>>

\* the level is looked up and remove_order walks to the first order that
\* carries the id; without a level or such an order cancel_order returns false
CancelFind(x) ==
    LET l == xlocal[x]
        levels == LevelsOf(Book, l.order_info.side)
        chain == IF l.order_info.price \in DOMAIN levels
                 THEN levels[l.order_info.price].chain ELSE <<>>
        hits == { i \in 1..Len(chain) : orders_[chain[i]].order_id = l.order_id }
    IN  /\ xpc[x] = "find"
        /\ IF hits = {}
           THEN /\ returned_value' = FALSE
                /\ xpc' = [xpc EXCEPT ![x] = "idle"]
                /\ xlocal' = [xlocal EXCEPT ![x] = IdleCancel]
           ELSE /\ xlocal' = [xlocal EXCEPT ![x] =
                       [l EXCEPT !.current =
                           chain[CHOOSE i \in hits : \A j \in hits : i <= j]]]
                /\ xpc' = [xpc EXCEPT ![x] = "read"]
                /\ UNCHANGED returned_value
        /\ UNCHANGED <<orders_, Ladders, order_lookup_, next_order_id_,
                       cache_valid_, book_ops, cancel_returned,
                       filled_after_cancel>>
        /\ UNCHANGED <<MatchSide, NotBook>>

\* remove_order: removed_quantity = current->get_remaining_quantity()
RemoveRead(x) ==
    LET l == xlocal[x]
    IN  /\ xpc[x] = "read"
        /\ xlocal' = [xlocal EXCEPT ![x] =
              [l EXCEPT !.removed_quantity = orders_[l.current].quantity]]
        /\ xpc' = [xpc EXCEPT ![x] = "store"]
        /\ UNCHANGED <<orders_, Ladders, order_lookup_, next_order_id_,
                       cache_valid_, book_ops, returned_value, cancel_returned,
                       filled_after_cancel>>
        /\ UNCHANGED <<MatchSide, NotBook>>

\* remove_order: current->status.store(CANCELLED)
RemoveStore(x) ==
    LET l == xlocal[x]
    IN  /\ xpc[x] = "store"
        /\ orders_' = [orders_ EXCEPT ![l.current].status = "CANCELLED"]
        /\ xpc' = [xpc EXCEPT ![x] = "sub"]
        /\ UNCHANGED <<Ladders, order_lookup_, next_order_id_, cache_valid_,
                       book_ops, returned_value, cancel_returned, xlocal,
                       filled_after_cancel>>
        /\ UNCHANGED <<MatchSide, NotBook>>

\* remove_order: total_quantity_.fetch_sub(removed_quantity) and
\* order_count_.fetch_sub(1)
RemoveSub(x) ==
    LET l == xlocal[x]
        levels == LevelsOf(Book, l.order_info.side)
        b == WithLevels(Book, l.order_info.side,
                 [levels EXCEPT
                     ![l.order_info.price].total_quantity_ = @ - l.removed_quantity,
                     ![l.order_info.price].order_count_ = @ - 1])
    IN  /\ xpc[x] = "sub"
        /\ bid_levels_' = b.bid_levels_
        /\ ask_levels_' = b.ask_levels_
        /\ xpc' = [xpc EXCEPT ![x] = "erase"]
        /\ UNCHANGED <<orders_, order_lookup_, next_order_id_, cache_valid_,
                       book_ops, returned_value, cancel_returned, xlocal,
                       filled_after_cancel>>
        /\ UNCHANGED <<MatchSide, NotBook>>

\* cancel_order: order_lookup_.erase(order_id), cache invalidation, return true
CancelErase(x) ==
    LET l == xlocal[x]
    IN  /\ xpc[x] = "erase"
        /\ order_lookup_' = Erase(order_lookup_, l.order_id)
        /\ cache_valid_' = FALSE
        /\ returned_value' = TRUE
        /\ cancel_returned' = cancel_returned \cup {l.current}
        /\ xpc' = [xpc EXCEPT ![x] = "idle"]
        /\ xlocal' = [xlocal EXCEPT ![x] = IdleCancel]
        /\ UNCHANGED <<orders_, Ladders, next_order_id_, book_ops,
                       filled_after_cancel>>
        /\ UNCHANGED <<MatchSide, NotBook>>

CancelStep(x) ==
    \/ CancelBegin(x) \/ CancelFind(x) \/ RemoveRead(x) \/ RemoveStore(x)
    \/ RemoveSub(x) \/ CancelErase(x)

\* one matching thread and one cancelling thread on a book that is filled by
\* add_order between their calls
RaceNext == RaceAddOrder \/ MatchStep("m1") \/ CancelStep("x1")

BNext ==
    AddOrder \/ MatchMarketOrder \/ MatchLimitOrder \/ CancelOrder \/ ModifyOrder

(***************************************************************************)
(* The dispatch loop of BacktestEngine::run with the data handler that     *)
(* feeds the bus.  The bus is the EventQueue with its mutex-guarded queue; *)
(* the ring buffer backend is specified above.  The data feed is an        *)
(* external collaborator that may publish while the loop runs, so the test *)
(* of the loop condition and the poll of the bus are separate steps.       *)
(***************************************************************************)
\* the symbols that have a strategy in strategies_
StrategySymbols == {"AAPL"}

\* process_trading_signal_event: double current_price = 100.0
current_price == D(100)
\* the strategies' signal->suggested_quantity = 100.0
suggested_quantity == D(100)
\* ExecutionSimulator::Config defaults
commission_per_share == Frac(5, 1000)
commission_percentage == D(0)
bid_ask_spread_bps == D(1)
slippage_factor == Frac(1, 10000)

\* MemoryPool::Config::max_pool_size of each of the three pools of an
\* EventPool (100000 in the code)
max_pool_size == 2

\* the engine and its collaborators after construction, the data handler
\* having loaded n bars
DInitFeed(n) ==
    /\ all_data_points_ = n
    /\ null_dereferenced = FALSE
    /\ aborted = FALSE
    /\ events_ = <<>>
    /\ live_ = {}
    /\ traditional_queue_ = <<>>
    /\ current_data_index_ = 0
    /\ is_running_ = FALSE
    /\ stop_requested_ = FALSE
    /\ last_signal_ = [s \in StrategySymbols |-> "HOLD"]
    /\ epc = "idle"
    /\ dispatched = <<>>

DInit == DInitFeed(MaxBars)

\* a feed of any length up to MaxBars
AnyFeedInit == \E n \in 1..MaxBars : DInitFeed(n)

\* CsvDataHandler::is_complete
is_complete == current_data_index_ >= all_data_points_

\* MemoryPool::allocate called by one thread returns nullptr: every cell of
\* the pool of the event type is allocated and the pool is at its maximum
PoolExhausted(type) ==
    Cardinality({ i \in live_ : events_[i].type = type }) >= max_pool_size

\* the fields of an event are stored through a null pointer, which is
\* undefined: the process is ended, or the stores do no visible harm and the
\* caller goes on with the null pointer
NullEventFilledIn(goes_on) ==
    /\ null_dereferenced' = TRUE
    /\ aborted' = ~goes_on

NoFault == UNCHANGED <<all_data_points_, null_dereferenced, aborted>>

\* ExecutionSimulator::calculate_execution_price
calculate_execution_price(quoted_price, is_buy) ==
    LET slip == FMul(quoted_price, slippage_factor)
        slippage == IF is_buy THEN slip ELSE FSub(D(0), slip)
        half_spread == FDiv(FMul(quoted_price,
                                 FDiv(bid_ask_spread_bps, D(10000))), D(2))
        spread_adjustment ==
            IF FLess(D(0), bid_ask_spread_bps)
            THEN (IF is_buy THEN half_spread ELSE FSub(D(0), half_spread))
            ELSE D(0)
    IN  FAdd(FAdd(quoted_price, slippage), spread_adjustment)

\* ExecutionSimulator::calculate_commission
calculate_commission(quantity, price) ==
    LET per_share == FMul(quantity, commission_per_share)
    IN  IF FLess(D(0), commission_percentage)
        THEN FAdd(per_share, FMul(FMul(quantity, price),
                                  FDiv(commission_percentage, D(100))))
        ELSE per_share

\* ExecutionSimulator::execute_simple_order (use_order_book and
\* simulate_partial_fills are off by default): the fill for a signal
execute_simple_order(signal, market_price) ==
    LET is_buy == signal.signal = "BUY"
        execution_price == calculate_execution_price(market_price, is_buy)
    IN  [type |-> "TRADE_EXECUTION", symbol |-> signal.symbol,
         quantity |-> signal.suggested_quantity, price |-> execution_price,
         commission |-> calculate_commission(signal.suggested_quantity,
                                             execution_price),
         is_buy |-> is_buy]

\* EventPool::create_*_event followed by EventQueue::enqueue: the event takes
\* a pool cell and goes to the back of the bus
CreateAndEnqueue(queue, event) ==
    /\ events_' = Append(events_, event)
    /\ live_' = live_ \cup {Len(events_) + 1}
    /\ traditional_queue_' = Append(queue, Len(events_) + 1)

\* process_events: the condition of the while loop
LoopRuns == ~stop_requested_ /\ ~is_complete

NotEngine == <<qvars, bvars, cvars, mvars, xvars>>

\* CsvDataHandler::stream_next, called by the driver of the feed
StreamNext ==
    /\ ~aborted
    /\ ~is_complete
    /\ IF ~PoolExhausted("MARKET_DATA")
       THEN /\ \E symbol \in Symbols, close \in Prices :
                  CreateAndEnqueue(traditional_queue_,
                      [type |-> "MARKET_DATA", symbol |-> symbol,
                       close |-> D(close)])
            /\ current_data_index_' = current_data_index_ + 1
            /\ NoFault
       ELSE \E goes_on \in BOOLEAN :
               /\ NullEventFilledIn(goes_on)
               /\ traditional_queue_' =
                      IF goes_on THEN Append(traditional_queue_, Null)
                      ELSE traditional_queue_
               /\ current_data_index_' =
                      IF goes_on THEN current_data_index_ + 1
                      ELSE current_data_index_
               /\ UNCHANGED <<events_, live_, all_data_points_>>
    /\ UNCHANGED <<is_running_, stop_requested_, last_signal_, epc, dispatched>>
    /\ UNCHANGED <<lvars, NotEngine>>

\* BacktestEngine::run up to the call of process_events
Run ==
    /\ ~aborted
    /\ epc = "idle"
    /\ is_running_' = TRUE
    /\ stop_requested_' = FALSE
    /\ epc' = "loop"
    /\ UNCHANGED <<events_, live_, traditional_queue_, current_data_index_,
                   last_signal_, dispatched>>
    /\ NoFault
    /\ UNCHANGED <<lvars, NotEngine>>

\* process_events: the loop condition holds, the iteration polls the bus
LoopCheck ==
    /\ ~aborted
    /\ epc = "loop"
    /\ LoopRuns
    /\ epc' = "poll"
    /\ UNCHANGED <<events_, live_, traditional_queue_, current_data_index_,
                   is_running_, stop_requested_, last_signal_, dispatched>>
    /\ NoFault
    /\ UNCHANGED <<lvars, NotEngine>>

\* process_events: get_next_event_safe returns nullptr (the bus is empty, or
\* its front is a null pointer that was enqueued), the thread yields and the
\* loop continues
PollEmpty ==
    /\ ~aborted
    /\ epc = "poll"
    /\ \/ /\ traditional_queue_ = <<>>
          /\ UNCHANGED traditional_queue_
       \/ /\ traditional_queue_ # <<>>
          /\ Head(traditional_queue_) = Null
          /\ traditional_queue_' = Tail(traditional_queue_)
    /\ epc' = "loop"
    /\ UNCHANGED <<events_, live_, current_data_index_,
                   is_running_, stop_requested_, last_signal_, dispatched>>
    /\ NoFault
    /\ UNCHANGED <<lvars, NotEngine>>

\* process_events: the loop condition fails, run() finishes
LoopExit ==
    /\ ~aborted
    /\ epc = "loop"
    /\ ~LoopRuns
    /\ is_running_' = FALSE
    /\ epc' = "returned"
    /\ UNCHANGED <<events_, live_, traditional_queue_, current_data_index_,
                   stop_requested_, last_signal_, dispatched>>
    /\ NoFault
    /\ UNCHANGED <<lvars, NotEngine>>

\* one loop iteration that dequeues a MarketDataEvent:
\* process_market_data_event updates the ledger, feeds the symbol's strategy
\* and enqueues the signal it generates, if any (a strategy does not repeat
\* its last signal)
DispatchMarketData ==
    /\ ~aborted
    /\ epc = "poll"
    /\ traditional_queue_ # <<>>
    /\ Head(traditional_queue_) # Null
    /\ events_[Head(traditional_queue_)].type = "MARKET_DATA"
    /\ LET event == events_[Head(traditional_queue_)]
       IN  /\ on_market_data(event.symbol, event.close)
           /\ IF event.symbol \in StrategySymbols
              THEN \E signal \in {"NONE", "BUY", "SELL"} \ {last_signal_[event.symbol]} :
                      IF signal = "NONE"
                      THEN /\ traditional_queue_' = Tail(traditional_queue_)
                           /\ UNCHANGED <<events_, live_, last_signal_>>
                           /\ NoFault
                      ELSE /\ last_signal_' =
                                  [last_signal_ EXCEPT ![event.symbol] = signal]
                           /\ IF ~PoolExhausted("TRADING_SIGNAL")
                              THEN /\ CreateAndEnqueue(Tail(traditional_queue_),
                                          [type |-> "TRADING_SIGNAL",
                                           symbol |-> event.symbol,
                                           signal |-> signal,
                                           suggested_quantity |->
                                               suggested_quantity])
                                   /\ NoFault
                              \* create_signal fills in the null signal;
                              \* add_event_safe ignores a null pointer
                              ELSE /\ \E goes_on \in BOOLEAN :
                                          NullEventFilledIn(goes_on)
                                   /\ traditional_queue_' =
                                          Tail(traditional_queue_)
                                   /\ UNCHANGED <<events_, live_,
                                                  all_data_points_>>
              ELSE /\ traditional_queue_' = Tail(traditional_queue_)
                   /\ UNCHANGED <<events_, live_, last_signal_>>
                   /\ NoFault
    /\ dispatched' = Append(dispatched, Head(traditional_queue_))
    /\ epc' = "loop"
    /\ UNCHANGED <<current_data_index_, is_running_, stop_requested_>>
    /\ UNCHANGED NotEngine

\* one loop iteration that dequeues a TradingSignalEvent:
\* process_trading_signal_event has the executor fill it and enqueues the fill
DispatchTradingSignal ==
    /\ ~aborted
    /\ epc = "poll"
    /\ traditional_queue_ # <<>>
    /\ Head(traditional_queue_) # Null
    /\ events_[Head(traditional_queue_)].type = "TRADING_SIGNAL"
    /\ IF ~PoolExhausted("TRADE_EXECUTION")
       THEN /\ CreateAndEnqueue(Tail(traditional_queue_),
                   execute_simple_order(events_[Head(traditional_queue_)],
                                        current_price))
            /\ NoFault
       \* execute_simple_order fills in the null trade event; the engine
       \* enqueues only a non-null execution event
       ELSE /\ \E goes_on \in BOOLEAN : NullEventFilledIn(goes_on)
            /\ traditional_queue_' = Tail(traditional_queue_)
            /\ UNCHANGED <<events_, live_, all_data_points_>>
    /\ dispatched' = Append(dispatched, Head(traditional_queue_))
    /\ epc' = "loop"
    /\ UNCHANGED <<current_data_index_, is_running_, stop_requested_,
                   last_signal_>>
    /\ UNCHANGED <<lvars, NotEngine>>

\* one loop iteration that dequeues a TradeExecutionEvent:
\* process_trade_execution_event applies the fill to the ledger
DispatchTradeExecution ==
    /\ ~aborted
    /\ epc = "poll"
    /\ traditional_queue_ # <<>>
    /\ Head(traditional_queue_) # Null
    /\ events_[Head(traditional_queue_)].type = "TRADE_EXECUTION"
    /\ on_trade_execution(events_[Head(traditional_queue_)])
    /\ traditional_queue_' = Tail(traditional_queue_)
    /\ dispatched' = Append(dispatched, Head(traditional_queue_))
    /\ epc' = "loop"
    /\ UNCHANGED <<events_, live_, current_data_index_, is_running_,
                   stop_requested_, last_signal_>>
    /\ NoFault
    /\ UNCHANGED NotEngine

DNext ==
    \/ StreamNext \/ Run \/ LoopCheck \/ PollEmpty \/ LoopExit
    \/ DispatchMarketData \/ DispatchTradingSignal \/ DispatchTradeExecution

(***************************************************************************)
(* MemoryPool<T>: allocate, expand_pool and deallocate called by several   *)
(* threads.  Cells are numbered in the order allocate_chunk constructs     *)
(* them.                                                                   *)
(***************************************************************************)
PoolThreads == {"t1", "t2"}

\* MemoryPool::Config::initial_pool_size (1000 in the code)
initial_pool_size == 1

\* MemoryPool::Config::growth_factor
growth_factor == 2

\* calls of allocate and deallocate begun in one behaviour
MaxPoolOps == 5

RECURSIVE CellsOf(_)
CellsOf(chunks) ==
    IF chunks = <<>> THEN 0 ELSE Head(chunks) + CellsOf(Tail(chunks))

\* the cells of all chunks of the pool
CellCount == CellsOf(chunks_)

\* the free list after push_free_block has been called for cells 1..n
RECURSIVE PushedList(_, _)
PushedList(next, n) ==
    IF n = 0 THEN next
    ELSE [PushedList(next, n - 1) EXCEPT ![n] = n - 1]

AllocateIdle ==
    [head |-> Null, next |-> Null, attempt |-> 1, first |-> 0, count |-> 0,
     pushed |-> 0]

\* MemoryPool(config): initialize_pool() calls allocate_chunk(initial_pool_size)
MInit ==
    /\ chunks_ = <<initial_pool_size>>
    /\ block_next = PushedList([c \in 1..(max_pool_size * growth_factor) |-> Null],
                               initial_pool_size)
    /\ free_list_head_ = initial_pool_size
    /\ is_allocated = {}
    /\ current_size_ = initial_pool_size
    /\ expanding_ = FALSE
    /\ apc = [t \in PoolThreads |-> "idle"]
    /\ alocal = [t \in PoolThreads |-> AllocateIdle]
    /\ allocate_result = [t \in PoolThreads |-> <<>>]
    /\ saw_exhausted = [t \in PoolThreads |-> FALSE]
    /\ held_ = [t \in PoolThreads |-> {}]
    /\ pool_ops = 0

NotPool == <<qvars, lvars, bvars, dvars, cvars, xvars>>

\* every thread inside allocate notes whether the state it has reached has
\* max_pool_size cells, all of them allocated; a call that begins forgets
\* what the thread's earlier call noted
NoteExhausted(beginning) ==
    saw_exhausted' =
        [u \in PoolThreads |->
            \/ (u \notin beginning /\ saw_exhausted[u])
            \/ (apc'[u] # "idle" /\ Cardinality(is_allocated') = max_pool_size)]

\* allocate() returns block (a cell or nullptr) to thread t
AllocateReturns(t, block) ==
    /\ apc' = [apc EXCEPT ![t] = "idle"]
    /\ alocal' = [alocal EXCEPT ![t] = AllocateIdle]
    /\ allocate_result' = [allocate_result EXCEPT ![t] = <<block>>]

\* thread t calls allocate()
AllocateBegin(t) ==
    /\ apc[t] = "idle"
    /\ pool_ops < MaxPoolOps
    /\ pool_ops' = pool_ops + 1
    /\ apc' = [apc EXCEPT ![t] = "load"]
    /\ alocal' = [alocal EXCEPT ![t] = AllocateIdle]
    /\ allocate_result' = [allocate_result EXCEPT ![t] = <<>>]
    /\ UNCHANGED <<chunks_, free_list_head_, block_next, is_allocated,
                   current_size_, expanding_, held_>>
    /\ NoteExhausted({t})
    /\ UNCHANGED NotPool

\* pop_free_block: head = free_list_head_.load()
PopLoadHead(t) ==
    /\ apc[t] = "load"
    /\ alocal' = [alocal EXCEPT ![t].head = free_list_head_]
    /\ apc' = [apc EXCEPT ![t] = "next"]
    /\ UNCHANGED <<chunks_, free_list_head_, block_next, is_allocated,
                   current_size_, expanding_, allocate_result, held_, pool_ops>>
    /\ NoteExhausted({})
    /\ UNCHANGED NotPool

\* pop_free_block: the loop test and next = head->next.load(); with no head
\* the pop returns nullptr, which sends the first attempt to expand_pool and
\* makes allocate return nullptr after the second
PopLoadNext(t) ==
    /\ apc[t] = "next"
    /\ IF alocal[t].head # Null
       THEN /\ alocal' = [alocal EXCEPT ![t].next = block_next[alocal[t].head]]
            /\ apc' = [apc EXCEPT ![t] = "cas"]
            /\ UNCHANGED allocate_result
       ELSE IF alocal[t].attempt = 1
       THEN /\ apc' = [apc EXCEPT ![t] = "expand"]
            /\ UNCHANGED <<alocal, allocate_result>>
       ELSE AllocateReturns(t, Null)
    /\ UNCHANGED <<chunks_, free_list_head_, block_next, is_allocated,
                   current_size_, expanding_, held_, pool_ops>>
    /\ NoteExhausted({})
    /\ UNCHANGED NotPool

\* pop_free_block: compare_exchange(head, next); on success the block leaves
\* the list, allocate marks it and returns it; on failure head is reloaded
PopCas(t) ==
    /\ apc[t] = "cas"
    /\ IF free_list_head_ = alocal[t].head
       THEN /\ free_list_head_' = alocal[t].next
            /\ block_next' = [block_next EXCEPT ![alocal[t].head] = Null]
            /\ is_allocated' = is_allocated \cup {alocal[t].head}
            /\ held_' = [held_ EXCEPT ![t] = @ \cup {alocal[t].head}]
            /\ AllocateReturns(t, alocal[t].head)
       ELSE /\ alocal' = [alocal EXCEPT ![t].head = free_list_head_]
            /\ apc' = [apc EXCEPT ![t] = "next"]
            /\ UNCHANGED <<free_list_head_, block_next, is_allocated, held_,
                           allocate_result>>
    /\ UNCHANGED <<chunks_, current_size_, expanding_, pool_ops>>
    /\ NoteExhausted({})
    /\ UNCHANGED NotPool

\* expand_pool: expanding_.compare_exchange_strong(false, true); the thread
\* that finds the flag set yields and returns true, and allocate pops again
ExpandBegin(t) ==
    /\ apc[t] = "expand"
    /\ IF expanding_
       THEN /\ alocal' = [alocal EXCEPT ![t].attempt = 2]
            /\ apc' = [apc EXCEPT ![t] = "load"]
            /\ UNCHANGED expanding_
       ELSE /\ expanding_' = TRUE
            /\ apc' = [apc EXCEPT ![t] = "grow"]
            /\ UNCHANGED alocal
    /\ UNCHANGED <<chunks_, free_list_head_, block_next, is_allocated,
                   current_size_, allocate_result, held_, pool_ops>>
    /\ NoteExhausted({})
    /\ UNCHANGED NotPool

\* new_size = min(current * growth_factor, max_pool_size)
new_size(current) ==
    IF current * growth_factor < max_pool_size
    THEN current * growth_factor ELSE max_pool_size

\* expand_pool under the flag: with no room it clears the flag and returns
\* false, and allocate returns nullptr; otherwise allocate_chunk constructs
\* the additional blocks
ExpandGrow(t) ==
    /\ apc[t] = "grow"
    /\ IF new_size(current_size_) <= current_size_
       THEN /\ expanding_' = FALSE
            /\ AllocateReturns(t, Null)
            /\ UNCHANGED chunks_
       ELSE /\ chunks_' = Append(chunks_, new_size(current_size_) - current_size_)
            /\ alocal' = [alocal EXCEPT
                   ![t].first = CellCount + 1,
                   ![t].count = new_size(current_size_) - current_size_,
                   ![t].pushed = 0]
            /\ apc' = [apc EXCEPT ![t] = "chunk"]
            /\ UNCHANGED <<expanding_, allocate_result>>
    /\ UNCHANGED <<free_list_head_, block_next, is_allocated, current_size_,
                   held_, pool_ops>>
    /\ NoteExhausted({})
    /\ UNCHANGED NotPool

\* allocate_chunk: push_free_block(&blocks[i]) for the next block of the chunk
ChunkPush(t) ==
    /\ apc[t] = "chunk"
    /\ alocal[t].pushed < alocal[t].count
    /\ LET block == alocal[t].first + alocal[t].pushed
       IN  /\ block_next' = [block_next EXCEPT ![block] = free_list_head_]
           /\ free_list_head_' = block
    /\ alocal' = [alocal EXCEPT ![t].pushed = @ + 1]
    /\ UNCHANGED <<chunks_, is_allocated, current_size_, expanding_, apc,
                   allocate_result, held_, pool_ops>>
    /\ NoteExhausted({})
    /\ UNCHANGED NotPool

\* allocate_chunk: current_size_.fetch_add(count); expand_pool clears the
\* flag and returns true, and allocate pops again
ExpandFinish(t) ==
    /\ apc[t] = "chunk"
    /\ alocal[t].pushed = alocal[t].count
    /\ current_size_' = current_size_ + alocal[t].count
    /\ expanding_' = FALSE
    /\ alocal' = [alocal EXCEPT ![t].attempt = 2]
    /\ apc' = [apc EXCEPT ![t] = "load"]
    /\ UNCHANGED <<chunks_, free_list_head_, block_next, is_allocated,
                   allocate_result, held_, pool_ops>>
    /\ NoteExhausted({})
    /\ UNCHANGED NotPool

\* thread t calls deallocate(ptr) for a cell it holds
Deallocate(t) ==
    /\ apc[t] = "idle"
    /\ pool_ops < MaxPoolOps
    /\ pool_ops' = pool_ops + 1
    /\ \E block \in held_[t] :
        /\ is_allocated' = is_allocated \ {block}
        /\ block_next' = [block_next EXCEPT ![block] = free_list_head_]
        /\ free_list_head_' = block
        /\ held_' = [held_ EXCEPT ![t] = @ \ {block}]
    /\ UNCHANGED <<chunks_, current_size_, expanding_, apc, alocal,
                   allocate_result>>
    /\ NoteExhausted({})
    /\ UNCHANGED NotPool

PoolStep(t) ==
    \/ AllocateBegin(t)
    \/ PopLoadHead(t)
    \/ PopLoadNext(t)
    \/ PopCas(t)
    \/ ExpandBegin(t)
    \/ ExpandGrow(t)
    \/ ChunkPush(t)
    \/ ExpandFinish(t)
    \/ Deallocate(t)

MNext == \E t \in PoolThreads : PoolStep(t)

(***************************************************************************)
(* Two EventQueues built from the same EventQueueConfig but for            *)
(* use_disruptor, which is true for one (the calls go to the ring buffer   *)
(* `ring') and false for the other (the calls go to traditional_queue_),   *)
(* and given the same calls by one thread.                                 *)
(***************************************************************************)
EngineSide == <<events_, live_, current_data_index_, is_running_,
                stop_requested_, last_signal_, epc, dispatched,
                all_data_points_, null_dereferenced, aborted>>

NotQueues == <<qvars, lvars, bvars, mvars, xvars, EngineSide>>

\* DisruptorQueue::empty(): consumer_seq >= producer_seq
RingEmpty == ring.consumer_sequence_ >= ring.cursor_

\* DisruptorQueue::size(): max(0, producer_seq - consumer_seq)
RingSize ==
    IF ring.cursor_ - ring.consumer_sequence_ > 0
    THEN ring.cursor_ - ring.consumer_sequence_ ELSE 0

\* enqueue(event) on both queues while fewer than capacity() events are
\* held: publish(event) claims the next sequence (it would wait on a full
\* ring) and stores the event, the fallback pushes it.  A store outside
\* buffer_ is undefined behaviour: the process ends, or the store lands in
\* memory that is no slot of the ring.
Enqueue ==
    /\ ~crashed
    /\ Len(accepted) < MaxRingEvents
    /\ Len(traditional_queue_) < ring.buffer_size
    /\ LET event == Len(accepted) + 1
           next == ring.cursor_ + 1
       IN  /\ next - ring.buffer_size <= ring.consumer_sequence_
           /\ accepted' = Append(accepted, event)
           /\ traditional_queue_' = Append(traditional_queue_, event)
           /\ IF InStorage(RingIndex(next))
              THEN /\ ring' = [ring EXCEPT !.cursor_ = next,
                                           !.buffer_[RingIndex(next)] = event]
                   /\ UNCHANGED crashed
              ELSE /\ ring' = [ring EXCEPT !.cursor_ = next]
                   /\ crashed' \in BOOLEAN
    /\ UNCHANGED <<delivered, dequeued>>
    /\ UNCHANGED NotQueues

\* what try_consume() returns and the ring it leaves: nullptr without a
\* published sequence, else the slot's content, which is cleared.  A load
\* outside buffer_ is undefined behaviour and returns whatever that memory
\* holds (or ends the process, see Dequeue).
TryConsumeOutcomes ==
    LET next == ring.consumer_sequence_ + 1
    IN  IF ring.cursor_ < next
        THEN {[event |-> Null, ring |-> ring]}
        ELSE IF InStorage(RingIndex(next))
        THEN {[event |-> ring.buffer_[RingIndex(next)],
               ring |-> [ring EXCEPT !.consumer_sequence_ = next,
                                     !.buffer_[RingIndex(next)] = Null]]}
        ELSE {[event |-> value,
               ring |-> [ring EXCEPT !.consumer_sequence_ = next]] :
                  value \in {Null} \cup Range(accepted)}

\* a load of try_consume falls outside buffer_
ConsumesOutside ==
    /\ ring.cursor_ >= ring.consumer_sequence_ + 1
    /\ ~InStorage(RingIndex(ring.consumer_sequence_ + 1))

\* dequeue() on both queues: try_consume() on the ring, front and pop (or
\* nullptr when empty) on the fallback
Dequeue ==
    /\ ~crashed
    /\ Len(dequeued) <= Len(accepted)
    /\ \E outcome \in TryConsumeOutcomes :
        /\ ring' = outcome.ring
        /\ IF traditional_queue_ = <<>>
           THEN /\ dequeued' = Append(dequeued, <<outcome.event, Null>>)
                /\ UNCHANGED traditional_queue_
           ELSE /\ dequeued' = Append(dequeued,
                                      <<outcome.event, Head(traditional_queue_)>>)
                /\ traditional_queue_' = Tail(traditional_queue_)
    /\ crashed' \in (IF ConsumesOutside THEN BOOLEAN ELSE {FALSE})
    /\ UNCHANGED <<accepted, delivered>>
    /\ UNCHANGED NotQueues

QueuesNext == Enqueue \/ Dequeue

(***************************************************************************)
(* Position::adjust_position called by several threads on one Position,    *)
(* as update_position_on_fill_lockfree does for fills of one symbol: the   *)
(* ledger holds no lock while it calls adjust_position.                    *)
(***************************************************************************)
AdjustThreads == {"a1", "a2"}

\* signed quantities of the fills (buy > 0, sell < 0)
QuantityDeltas == {-2, -1, 1, 2}

\* adjust_position calls begun in one behaviour
MaxAdjustOps == 3

AdjustIdle ==
    [quantity_delta |-> D(0), trade_price |-> D(0), current_qty |-> D(0),
     new_qty |-> D(0), new_entry |-> D(0)]

\* get_or_create_position: Position(symbol, 0.0, 0.0)
PInit ==
    /\ shared_position = NewPosition(D(0), D(0))
    /\ jpc = [t \in AdjustThreads |-> "idle"]
    /\ jlocal = [t \in AdjustThreads |-> AdjustIdle]
    /\ deltas_applied = 0
    /\ adjust_ops = 0

(***************************************************************************)
(* Order::try_fill called on one order by several threads, as match_orders *)
(* does under the shared lock of the ladder.  Each atomic access is a step.*)
(***************************************************************************)
FillThreads == {"f1", "f2"}
\* original quantities of the order and the quantities asked of try_fill
\* (match_orders passes its remaining_quantity, which is positive)
OrderQuantities == {1, 2, 3}
FillRequests == {1, 2, 3}
MaxFillOps == 4

FillIdle == [fill_quantity |-> 0, current_qty |-> 0, actual_fill |-> 0,
             new_qty |-> 0, expected_status |-> "ACTIVE"]

\* Order(id, sym, s, p, q): quantity and original_quantity q, status ACTIVE
TInitWith(q) ==
    /\ resting_order = [original_quantity |-> q, quantity |-> q,
                        status |-> "ACTIVE"]
    /\ fpc = [t \in FillThreads |-> "idle"]
    /\ flocal = [t \in FillThreads |-> FillIdle]
    /\ try_fill_result = [t \in FillThreads |->
                             [fill_quantity |-> 0, returned |-> 0]]
    /\ filled_total = 0
    /\ fill_ops = 0

TInit == TInitWith(2)

(***************************************************************************)
(* SmaCrossoverStrategy: on_market_data and generate_signal, called by     *)
(* process_market_data_event for each bar.                                 *)
(***************************************************************************)
\* window pairs the constructor accepts (long_window > short_window > 0)
WindowPairs == { <<1, 2>>, <<1, 3>>, <<2, 3>> }
BarCloses == {10, 11, 12}
MaxSmaBars == 5

\* IncrementalSMA::IncrementalSMA
NewSMA == [prices_ |-> <<>>, current_sum_ |-> 0]

\* SmaCrossoverStrategy::SmaCrossoverStrategy(short_window, long_window)
SInitWith(windows) ==
    /\ short_window_ = windows[1]
    /\ long_window_ = windows[2]
    /\ short_calculator_ = NewSMA
    /\ long_calculator_ = NewSMA
    /\ sma_last_signal_ = "NONE"
    /\ bars_received = 0
    /\ generated = "NONE"

SInit == SInitWith(<<1, 2>>)

(***************************************************************************)
(* DisruptorQueue configured with WaitStrategyType::BLOCKING: consume()    *)
(* waits in BlockingWaitStrategy::wait_for, publish() calls                *)
(* signal_all_when_blocking.  claim_next_sequence, the slot accesses and   *)
(* the sequence updates are the steps of the queue specified above.        *)
(***************************************************************************)
WInit ==
    /\ mutex_ = "free"
    /\ condition_ = {}

NInit ==
    /\ kinds = <<>>
    /\ processed = 0

\* the thread that applies market data and a thread that reads the equity
EquityWriter == "w1"
EquityReader == "r1"
EquityThreads == {EquityWriter, EquityReader}
\* market_value_change of a bar on a held symbol (|change| > 1e-8)
MarketValueChanges == {-1, 1, 2}
MaxEquityOps == 4

EquityIdle == [market_value_change |-> 0, total_equity |-> D(0),
               returned |-> D(0)]

KInit ==
    /\ kpc = [t \in EquityThreads |-> "idle"]
    /\ klocal = [t \in EquityThreads |-> EquityIdle]
    /\ equity_ops = 0

XInit == PInit /\ TInit /\ SInit /\ WInit /\ NInit /\ KInit

CoreVars == <<qvars, lvars, bvars, dvars, cvars, mvars>>

NotPosition == <<CoreVars, tvars, svars, wvars, nvars, kvars>>
NotFill == <<CoreVars, pvars, svars, wvars, nvars, kvars>>
NotStrategy == <<CoreVars, pvars, tvars, wvars, nvars, kvars>>
NotEquity == <<positions_, trade_history_, recent_fills, qvars, bvars, dvars,
               cvars, mvars, pvars, tvars, svars, wvars, nvars>>
\* the state a step of a consumer (producer) of the blocking queue leaves
\* alone, beside the wait strategy
ConsumerOthers == <<cursor_, ppc, pblocking, pevent, current_sequence,
                    next_sequence, pcount, published, written, overwrote,
                    lvars, bvars, dvars, cvars, mvars, pvars, tvars, svars,
                    nvars, kvars>>
ProducerOthers == <<consumer_sequence_, cpc, cblocking, next_consume_sequence,
                    cevent, returned, lvars, bvars, dvars, cvars, mvars,
                    pvars, tvars, svars, nvars, kvars>>

\* consume(): next_consume_sequence = consumer_sequence_.get() + 1, then
\* wait_strategy_->wait_for is entered
BlockingConsumeCall(c) ==
    /\ cpc[c] = "idle"
    /\ Len(returned) < MaxEvents
    /\ cblocking' = [cblocking EXCEPT ![c] = TRUE]
    /\ next_consume_sequence' =
           [next_consume_sequence EXCEPT ![c] = consumer_sequence_ + 1]
    /\ cpc' = [cpc EXCEPT ![c] = "quick"]
    /\ UNCHANGED <<consumer_sequence_, buffer_, cevent, returned, wvars>>
    /\ UNCHANGED ConsumerOthers

\* wait_for: the quick check without locking
WaitQuickCheck(c) ==
    /\ cpc[c] = "quick"
    /\ cpc' = [cpc EXCEPT ![c] =
           IF try_wait_for(next_consume_sequence[c]) >= next_consume_sequence[c]
           THEN "load" ELSE "lock"]
    /\ UNCHANGED <<consumer_sequence_, buffer_, cblocking,
                   next_consume_sequence, cevent, returned, wvars>>
    /\ UNCHANGED ConsumerOthers

\* wait_for: std::unique_lock<std::mutex> lock(mutex_)
WaitLock(c) ==
    /\ cpc[c] = "lock"
    /\ mutex_ = "free"
    /\ mutex_' = c
    /\ cpc' = [cpc EXCEPT ![c] = "locked"]
    /\ UNCHANGED <<consumer_sequence_, buffer_, cblocking,
                   next_consume_sequence, cevent, returned, condition_>>
    /\ UNCHANGED ConsumerOthers

\* wait_for: the loop condition under the mutex; condition_.wait(lock)
\* releases the mutex and blocks, a reached sequence ends wait_for
WaitCheck(c) ==
    /\ cpc[c] = "locked"
    /\ mutex_' = "free"
    /\ IF try_wait_for(next_consume_sequence[c]) < next_consume_sequence[c]
       THEN /\ condition_' = condition_ \cup {c}
            /\ cpc' = [cpc EXCEPT ![c] = "blocked"]
       ELSE /\ cpc' = [cpc EXCEPT ![c] = "load"]
            /\ UNCHANGED condition_
    /\ UNCHANGED <<consumer_sequence_, buffer_, cblocking,
                   next_consume_sequence, cevent, returned>>
    /\ UNCHANGED ConsumerOthers

\* condition_.wait returns after notify_all: the mutex is taken again
WaitWake(c) ==
    /\ cpc[c] = "blocked"
    /\ c \notin condition_
    /\ mutex_ = "free"
    /\ mutex_' = c
    /\ cpc' = [cpc EXCEPT ![c] = "locked"]
    /\ UNCHANGED <<consumer_sequence_, buffer_, cblocking,
                   next_consume_sequence, cevent, returned, condition_>>
    /\ UNCHANGED ConsumerOthers

\* condition_.wait may return without a notification (spurious wake-up)
WaitSpuriousWake(c) ==
    /\ cpc[c] = "blocked"
    /\ c \in condition_
    /\ mutex_ = "free"
    /\ mutex_' = c
    /\ condition_' = condition_ \ {c}
    /\ cpc' = [cpc EXCEPT ![c] = "locked"]
    /\ UNCHANGED <<consumer_sequence_, buffer_, cblocking,
                   next_consume_sequence, cevent, returned>>
    /\ UNCHANGED ConsumerOthers

\* try_publish / publish: the slot store and publish_sequence; try_publish
\* returns true, publish goes on to signal_all_when_blocking
StoreAndPublish(p) ==
    /\ ppc[p] = "store"
    /\ buffer_' = [buffer_ EXCEPT ![SlotIndex(next_sequence[p])] = pevent[p]]
    /\ written' = written \cup {next_sequence[p]}
    /\ published' = Append(published, pevent[p])
    /\ pcount' = [pcount EXCEPT ![p] = pcount[p] + 1]
    /\ ppc' = [ppc EXCEPT ![p] = IF pblocking[p] THEN "signal" ELSE "idle"]
    /\ UNCHANGED <<cursor_, pblocking, pevent, current_sequence, next_sequence,
                   overwrote, wvars>>
    /\ UNCHANGED ProducerOthers

\* signal_all_when_blocking: lock_guard, condition_.notify_all()
SignalAllWhenBlocking(p) ==
    /\ ppc[p] = "signal"
    /\ mutex_ = "free"
    /\ condition_' = {}
    /\ ppc' = [ppc EXCEPT ![p] = "idle"]
    /\ UNCHANGED <<cursor_, buffer_, pblocking, pevent, current_sequence,
                   next_sequence, pcount, published, written, overwrote,
                   mutex_>>
    /\ UNCHANGED ProducerOthers

\* the steps of a running consumer that do not depend on a spurious wake-up
BlockingConsumerRuns(c) ==
    \/ WaitQuickCheck(c) \/ WaitLock(c) \/ WaitCheck(c) \/ WaitWake(c)
    \/ ConsumeLoad(c) \/ ConsumeClear(c) \/ ConsumeSetAndReturn(c)

\* the steps of a producer inside try_publish or publish
BlockingProducerRuns(p) ==
    \/ ClaimReadCursor(p) \/ ClaimCheckCached(p) \/ ClaimCheckFresh(p)
    \/ ClaimCas(p) \/ StoreAndPublish(p) \/ SignalAllWhenBlocking(p)

(***************************************************************************)
(* The equity cache of PositionManager used by two threads: one applies    *)
(* bars with on_market_data, which ends in a call of get_total_equity for  *)
(* the equity curve, the other calls get_total_equity.  Each atomic access *)
(* to total_equity, cached_total_equity_ and equity_cache_valid_ is a step.*)
(***************************************************************************)
\* on_market_data for a symbol that has a position whose market value
\* changes: atomic_add_double on total_market_value and total_equity
MarketDataAddEquity(t) ==
    /\ t = EquityWriter
    /\ kpc[t] = "idle"
    /\ equity_ops < MaxEquityOps
    /\ \E market_value_change \in MarketValueChanges :
          /\ portfolio_stats_' =
                 [portfolio_stats_ EXCEPT
                     !.total_market_value = FAdd(@, D(market_value_change)),
                     !.total_equity = FAdd(@, D(market_value_change))]
          /\ klocal' = [klocal EXCEPT ![t] =
                 [EquityIdle EXCEPT !.market_value_change = market_value_change]]
    /\ kpc' = [kpc EXCEPT ![t] = "invalidate"]
    /\ equity_ops' = equity_ops + 1
    /\ UNCHANGED <<cached_total_equity_, equity_cache_valid_, equity_curve_,
                   NotEquity>>

\* on_market_data: equity_cache_valid_.store(false); the lock is released
\* and get_total_equity is called
MarketDataInvalidate(t) ==
    /\ kpc[t] = "invalidate"
    /\ equity_cache_valid_' = FALSE
    /\ kpc' = [kpc EXCEPT ![t] = "flag"]
    /\ UNCHANGED <<portfolio_stats_, cached_total_equity_, equity_curve_,
                   klocal, equity_ops, NotEquity>>

\* get_total_equity is called by the reading thread
EquityReadCall(t) ==
    /\ t = EquityReader
    /\ kpc[t] = "idle"
    /\ equity_ops < MaxEquityOps
    /\ klocal' = [klocal EXCEPT ![t] = EquityIdle]
    /\ kpc' = [kpc EXCEPT ![t] = "flag"]
    /\ equity_ops' = equity_ops + 1
    /\ UNCHANGED <<portfolio_stats_, cached_total_equity_, equity_cache_valid_,
                   equity_curve_, NotEquity>>

\* get_total_equity: equity_cache_valid_.load()
EquityLoadFlag(t) ==
    /\ kpc[t] = "flag"
    /\ kpc' = [kpc EXCEPT ![t] = IF equity_cache_valid_ THEN "cached"
                                 ELSE "total"]
    /\ UNCHANGED <<portfolio_stats_, cached_total_equity_, equity_cache_valid_,
                   equity_curve_, klocal, equity_ops, NotEquity>>

\* get_total_equity returns value: the reading thread has its result,
\* on_market_data appends it to the equity curve
EquityReturn(t, value) ==
    /\ klocal' = [klocal EXCEPT ![t].returned = value]
    /\ equity_curve_' = IF t = EquityWriter THEN Append(equity_curve_, value)
                        ELSE equity_curve_
    /\ kpc' = [kpc EXCEPT ![t] = "idle"]

\* get_total_equity: return cached_total_equity_.load()
EquityLoadCached(t) ==
    /\ kpc[t] = "cached"
    /\ EquityReturn(t, cached_total_equity_)
    /\ UNCHANGED <<portfolio_stats_, cached_total_equity_, equity_cache_valid_,
                   equity_ops, NotEquity>>

\* get_total_equity: total_equity = portfolio_stats_.total_equity.load()
EquityLoadTotal(t) ==
    /\ kpc[t] = "total"
    /\ klocal' = [klocal EXCEPT ![t].total_equity =
                      portfolio_stats_.total_equity]
    /\ kpc' = [kpc EXCEPT ![t] = "store"]
    /\ UNCHANGED <<portfolio_stats_, cached_total_equity_, equity_cache_valid_,
                   equity_curve_, equity_ops, NotEquity>>

\* get_total_equity: cached_total_equity_.store(total_equity)
EquityStoreCached(t) ==
    /\ kpc[t] = "store"
    /\ cached_total_equity_' = klocal[t].total_equity
    /\ kpc' = [kpc EXCEPT ![t] = "validate"]
    /\ UNCHANGED <<portfolio_stats_, equity_cache_valid_, equity_curve_,
                   klocal, equity_ops, NotEquity>>

\* get_total_equity: equity_cache_valid_.store(true); return total_equity
EquityStoreFlag(t) ==
    /\ kpc[t] = "validate"
    /\ equity_cache_valid_' = TRUE
    /\ EquityReturn(t, klocal[t].total_equity)
    /\ UNCHANGED <<portfolio_stats_, cached_total_equity_, equity_ops,
                   NotEquity>>

EquityStep(t) ==
    \/ MarketDataAddEquity(t) \/ MarketDataInvalidate(t)
    \/ EquityReadCall(t)
    \/ EquityLoadFlag(t) \/ EquityLoadCached(t) \/ EquityLoadTotal(t)
    \/ EquityStoreCached(t) \/ EquityStoreFlag(t)

KNext == \E t \in EquityThreads : EquityStep(t)

(***************************************************************************)
(* BacktestEngine::process_events on an EventQueue with use_disruptor set  *)
(* (the default): the feed thread enqueues bars, the dispatch thread       *)
(* dequeues with try_consume and enqueues the signals and fills itself.    *)
(***************************************************************************)
FeedThread == "p1"
DispatchProducer == "p2"
DispatchConsumer == "c1"
\* bars the data handler has loaded
MaxRingBars == 3

NotRingEngine == <<lvars, bvars, dvars, cvars, mvars, pvars, tvars, svars,
                   wvars, kvars>>

\* EventQueue::enqueue(event): disruptor_queue_->publish(event) is entered
RingEnqueue(p, kind) ==
    /\ ppc[p] = "idle"
    /\ pblocking' = [pblocking EXCEPT ![p] = TRUE]
    /\ pevent' = [pevent EXCEPT ![p] = EventOf(p, pcount[p] + 1)]
    /\ kinds' = (EventOf(p, pcount[p] + 1) :> kind) @@ kinds
    /\ ppc' = [ppc EXCEPT ![p] = "claim"]
    /\ UNCHANGED <<cursor_, buffer_, current_sequence, next_sequence, pcount,
                   published, written, overwrote>>

\* CsvDataHandler::is_complete for the feed of MaxRingBars bars
FeedComplete == pcount[FeedThread] >= MaxRingBars

\* CsvDataHandler::stream_next on the feed thread: the bar is enqueued
RingStreamNext ==
    /\ ~FeedComplete
    /\ RingEnqueue(FeedThread, "bar")
    /\ UNCHANGED <<consumer_sequence_, cpc, cblocking, next_consume_sequence,
                   cevent, returned, processed, NotRingEngine>>

\* process_events: the loop condition holds and get_next_event_safe enters
\* EventQueue::dequeue, which is try_consume
RingDequeue ==
    /\ ~FeedComplete
    /\ ppc[DispatchProducer] = "idle"
    /\ cpc[DispatchConsumer] = "idle"
    /\ processed = Len(returned)
    /\ cblocking' = [cblocking EXCEPT ![DispatchConsumer] = FALSE]
    /\ next_consume_sequence' =
           [next_consume_sequence EXCEPT ![DispatchConsumer] =
               consumer_sequence_ + 1]
    /\ cpc' = [cpc EXCEPT ![DispatchConsumer] = "wait"]
    /\ UNCHANGED <<consumer_sequence_, buffer_, cevent, returned>>
    /\ UNCHANGED <<cursor_, ppc, pblocking, pevent, current_sequence,
                   next_sequence, pcount, published, written, overwrote,
                   nvars, NotRingEngine>>

\* process_events: the dequeued event is dispatched.  A bar may make the
\* strategy emit a signal, a signal makes the executor emit a fill; both go
\* to add_event_safe, which enters enqueue on the dispatch thread.
RingDispatch ==
    LET event == returned[processed + 1][2]
        kind == IF event \in DOMAIN kinds THEN kinds[event] ELSE "none"
    IN  /\ cpc[DispatchConsumer] = "idle"
        /\ processed < Len(returned)
        /\ processed' = processed + 1
        /\ \/ /\ kind = "bar"
              /\ RingEnqueue(DispatchProducer, "signal")
           \/ /\ kind = "signal"
              /\ RingEnqueue(DispatchProducer, "fill")
           \/ /\ kind # "signal"
              /\ UNCHANGED <<cursor_, buffer_, ppc, pblocking, pevent,
                             current_sequence, next_sequence, pcount,
                             published, written, overwrote, kinds>>
        /\ UNCHANGED <<consumer_sequence_, cpc, cblocking,
                       next_consume_sequence, cevent, returned,
                       NotRingEngine>>

\* the steps of a thread inside publish
InPublish(p) ==
    \/ ClaimReadCursor(p) \/ ClaimCheckCached(p) \/ ClaimCheckFresh(p)
    \/ ClaimCas(p) \/ StoreAndReturn(p)

\* the steps of the dispatch thread
DispatchThreadRuns ==
    \/ RingDequeue
    \/ ConsumeAvailable(DispatchConsumer) \/ ConsumeLoad(DispatchConsumer)
    \/ ConsumeClear(DispatchConsumer)
    \/ ConsumeSetAndReturn(DispatchConsumer)
    \/ RingDispatch
    \/ InPublish(DispatchProducer)

ENext == RingStreamNext \/ InPublish(FeedThread) \/ DispatchThreadRuns

\* one producer and one consumer on the blocking queue
WNext ==
    \/ PublishCall("p1") \/ BlockingProducerRuns("p1")
    \/ BlockingConsumeCall("c1") \/ BlockingConsumerRuns("c1")
    \/ WaitSpuriousWake("c1")

\* IncrementalSMA::update: the calculator after new_price
SmaUpdate(calculator, period_, new_price) ==
    LET sum == calculator.current_sum_ + new_price
        pushed == Append(calculator.prices_, new_price)
    IN  IF Len(pushed) > period_
        THEN [prices_ |-> Tail(pushed), current_sum_ |-> sum - Head(pushed)]
        ELSE [prices_ |-> pushed, current_sum_ |-> sum]

\* IncrementalSMA::get_value
SmaValue(calculator) ==
    IF calculator.prices_ # <<>>
    THEN Frac(calculator.current_sum_, Len(calculator.prices_))
    ELSE D(0)

\* SmaCrossoverStrategy::generate_signal: the signal returned ("NONE" for
\* nullptr), given the two averages and last_signal_
generate_signal(long_sma, short_sma, last) ==
    IF long_sma = D(0) THEN "NONE"
    ELSE IF FLess(long_sma, short_sma) /\ last # "BUY" THEN "BUY"
    ELSE IF FLess(short_sma, long_sma) /\ last # "SELL" THEN "SELL"
    ELSE "NONE"

\* process_market_data_event for one bar: strategy->on_market_data(event),
\* then strategy->generate_signal(pool)
SmaOnBar ==
    /\ bars_received < MaxSmaBars
    /\ \E close \in BarCloses :
          \E short \in {SmaUpdate(short_calculator_, short_window_, close)},
             long \in {SmaUpdate(long_calculator_, long_window_, close)} :
             \E signal \in {generate_signal(SmaValue(long), SmaValue(short),
                                            sma_last_signal_)} :
                /\ short_calculator_' = short
                /\ long_calculator_' = long
                /\ generated' = signal
                /\ sma_last_signal_' =
                       IF signal = "NONE" THEN sma_last_signal_ ELSE signal
    /\ bars_received' = bars_received + 1
    /\ UNCHANGED <<short_window_, long_window_, NotStrategy>>

SNext == SmaOnBar

\* try_fill returns value to its caller
TryFillReturn(t, value) ==
    /\ try_fill_result' = [try_fill_result EXCEPT ![t] =
            [fill_quantity |-> flocal[t].fill_quantity, returned |-> value]]
    /\ filled_total' = filled_total + value
    /\ fpc' = [fpc EXCEPT ![t] = "idle"]

\* the loop condition with a freshly loaded current_qty: the body is entered
\* with actual_fill and new_qty computed, or try_fill returns 0
TryFillLoop(t, l, current_qty) ==
    IF current_qty > 0 /\ l.fill_quantity > 0
    THEN /\ flocal' = [flocal EXCEPT ![t] =
                [l EXCEPT !.current_qty = current_qty,
                          !.actual_fill = Min(current_qty, l.fill_quantity),
                          !.new_qty = current_qty
                                        - Min(current_qty, l.fill_quantity)]]
         /\ fpc' = [fpc EXCEPT ![t] = "cas"]
         /\ UNCHANGED <<try_fill_result, filled_total>>
    ELSE /\ flocal' = [flocal EXCEPT ![t] = l]
         /\ try_fill_result' = [try_fill_result EXCEPT ![t] =
                [fill_quantity |-> l.fill_quantity, returned |-> 0]]
         /\ UNCHANGED filled_total
         /\ fpc' = [fpc EXCEPT ![t] = "idle"]

\* try_fill(fill_quantity): current_qty = quantity.load()
TryFillBegin(t) ==
    /\ fpc[t] = "idle"
    /\ fill_ops < MaxFillOps
    /\ \E fill_quantity \in FillRequests :
          TryFillLoop(t, [FillIdle EXCEPT !.fill_quantity = fill_quantity],
                      resting_order.quantity)
    /\ fill_ops' = fill_ops + 1
    /\ UNCHANGED <<resting_order, NotFill>>

\* try_fill with quantity.store(new_qty) in place of the compare-exchange
TryFillCas_plain_store(t) ==
    LET l == flocal[t]
    IN  /\ fpc[t] = "cas"
        /\ resting_order' = [resting_order EXCEPT !.quantity = l.new_qty]
        /\ fpc' = [fpc EXCEPT ![t] = "status_load"]
        /\ UNCHANGED <<flocal, try_fill_result, filled_total, fill_ops,
                       NotFill>>

\* quantity.compare_exchange_weak(current_qty, new_qty): it may fail though
\* the value is the expected one; after a failure the loop reloads
TryFillCas(t) ==
    LET l == flocal[t]
    IN  /\ fpc[t] = "cas"
        /\ \E exchanged \in (IF resting_order.quantity = l.current_qty
                             THEN BOOLEAN ELSE {FALSE}) :
              IF exchanged
              THEN /\ resting_order' =
                          [resting_order EXCEPT !.quantity = l.new_qty]
                   /\ fpc' = [fpc EXCEPT ![t] = "status_load"]
              ELSE /\ fpc' = [fpc EXCEPT ![t] = "reload"]
                   /\ UNCHANGED resting_order
        /\ UNCHANGED <<flocal, try_fill_result, filled_total, fill_ops,
                       NotFill>>

\* current_qty = quantity.load() after a failed exchange, then the loop test
TryFillReload(t) ==
    /\ fpc[t] = "reload"
    /\ TryFillLoop(t, flocal[t], resting_order.quantity)
    /\ UNCHANGED <<resting_order, fill_ops, NotFill>>

\* expected_status = status.load()
TryFillStatusLoad(t) ==
    /\ fpc[t] = "status_load"
    /\ flocal' = [flocal EXCEPT ![t].expected_status = resting_order.status]
    /\ fpc' = [fpc EXCEPT ![t] = "status_cas"]
    /\ UNCHANGED <<resting_order, try_fill_result, filled_total, fill_ops,
                   NotFill>>

\* status.compare_exchange_weak(expected_status, new_status), not retried;
\* return actual_fill
TryFillStatusCas(t) ==
    LET l == flocal[t]
        new_status == IF l.new_qty = 0 THEN "FULLY_FILLED"
                      ELSE "PARTIALLY_FILLED"
    IN  /\ fpc[t] = "status_cas"
        /\ \E exchanged \in (IF resting_order.status = l.expected_status
                             THEN BOOLEAN ELSE {FALSE}) :
              resting_order' = IF exchanged
                               THEN [resting_order EXCEPT !.status = new_status]
                               ELSE resting_order
        /\ TryFillReturn(t, l.actual_fill)
        /\ UNCHANGED <<flocal, fill_ops, NotFill>>

TryFillStep(t) ==
    \/ TryFillBegin(t)
    \/ TryFillCas(t)
    \/ TryFillReload(t)
    \/ TryFillStatusLoad(t)
    \/ TryFillStatusCas(t)

TNext == \E t \in FillThreads : TryFillStep(t)

\* adjust_position(quantity_delta, trade_price): current_qty =
\* quantity_.load()
AdjustLoadQuantity(t) ==
    /\ jpc[t] = "idle"
    /\ adjust_ops < MaxAdjustOps
    /\ \E quantity_delta \in QuantityDeltas, trade_price \in Prices :
        /\ jlocal' = [jlocal EXCEPT ![t] =
               [AdjustIdle EXCEPT !.quantity_delta = D(quantity_delta),
                                  !.trade_price = D(trade_price),
                                  !.current_qty = shared_position.quantity_]]
        /\ deltas_applied' = deltas_applied + quantity_delta
    /\ adjust_ops' = adjust_ops + 1
    /\ jpc' = [jpc EXCEPT ![t] = "entry"]
    /\ UNCHANGED shared_position
    /\ UNCHANGED NotPosition

\* current_entry = entry_price_.load(); new_qty, the realized P&L of a
\* closure, which is added to realized_pnl_, and new_entry are computed from
\* the values loaded
AdjustLoadEntry(t) ==
    /\ jpc[t] = "entry"
    /\ \E loaded \in {[shared_position EXCEPT !.quantity_ = jlocal[t].current_qty]} :
       \E after \in {adjust_position(loaded, jlocal[t].quantity_delta,
                                      jlocal[t].trade_price)} :
        /\ shared_position' = [shared_position EXCEPT !.realized_pnl_ =
               FAdd(@, RealizedFromTrade(loaded, jlocal[t].quantity_delta,
                                         jlocal[t].trade_price))]
        /\ jlocal' = [jlocal EXCEPT
               ![t].new_qty = FAdd(jlocal[t].current_qty,
                                   jlocal[t].quantity_delta),
               ![t].new_entry = after.entry_price_]
    /\ jpc' = [jpc EXCEPT ![t] = "quantity"]
    /\ UNCHANGED <<deltas_applied, adjust_ops>>
    /\ UNCHANGED NotPosition

\* abs(new_qty) > 1e-8: the load and compare_exchange loop adds
\* quantity_delta to quantity_; otherwise quantity_.store(0.0)
AdjustStoreQuantity(t) ==
    /\ jpc[t] = "quantity"
    /\ IF ExceedsEpsilon(jlocal[t].new_qty)
       THEN /\ shared_position' = [shared_position EXCEPT !.quantity_ =
                   FAdd(@, jlocal[t].quantity_delta)]
            /\ jpc' = [jpc EXCEPT ![t] = "price"]
       ELSE /\ shared_position' = [shared_position EXCEPT !.quantity_ = D(0)]
            /\ jpc' = [jpc EXCEPT ![t] = "flat"]
    /\ UNCHANGED <<jlocal, deltas_applied, adjust_ops>>
    /\ UNCHANGED NotPosition

\* entry_price_.store(new_entry)
AdjustStoreEntry(t) ==
    /\ jpc[t] = "price"
    /\ shared_position' = [shared_position EXCEPT !.entry_price_ = jlocal[t].new_entry]
    /\ jpc' = [jpc EXCEPT ![t] = "pnl"]
    /\ UNCHANGED <<jlocal, deltas_applied, adjust_ops>>
    /\ UNCHANGED NotPosition

\* update_pnl(current_price_.load()), and the call returns
AdjustUpdatePnl(t) ==
    /\ jpc[t] = "pnl"
    /\ shared_position' = update_pnl(shared_position, shared_position.current_price_)
    /\ jpc' = [jpc EXCEPT ![t] = "idle"]
    /\ jlocal' = [jlocal EXCEPT ![t] = AdjustIdle]
    /\ UNCHANGED <<deltas_applied, adjust_ops>>
    /\ UNCHANGED NotPosition

\* the flat branch: unrealized_pnl_.store(0.0), and the call returns
AdjustStoreFlat(t) ==
    /\ jpc[t] = "flat"
    /\ shared_position' = [shared_position EXCEPT !.unrealized_pnl_ = D(0)]
    /\ jpc' = [jpc EXCEPT ![t] = "idle"]
    /\ jlocal' = [jlocal EXCEPT ![t] = AdjustIdle]
    /\ UNCHANGED <<deltas_applied, adjust_ops>>
    /\ UNCHANGED NotPosition

AdjustStep(t) ==
    \/ AdjustLoadQuantity(t)
    \/ AdjustLoadEntry(t)
    \/ AdjustStoreQuantity(t)
    \/ AdjustStoreEntry(t)
    \/ AdjustUpdatePnl(t)
    \/ AdjustStoreFlat(t)

PNext == \E t \in AdjustThreads : AdjustStep(t)

vars == <<qvars, lvars, bvars, dvars, cvars, mvars, xvars>>

Init == QInit /\ LInit /\ BInit /\ RInit /\ DInit /\ CInit /\ MInit /\ XInit

\* one producer thread and one consumer thread
QNextSPSC == ProducerStep("p1") \/ ConsumerStep("c1")

\* several producer threads and one consumer thread
QNextMPSC == (\E p \in Producers : ProducerStep(p)) \/ ConsumerStep("c1")

\* one producer thread and two worker threads polling with try_consume
QNextSPMC == ProducerStep("p1") \/ (\E c \in Consumers : TryConsumerStep(c))

SpecSPSC == Init /\ [][QNextSPSC]_vars
SpecSPMC == Init /\ [][QNextSPMC]_vars
SpecMPSC == Init /\ [][QNextMPSC]_vars

\* the portfolio ledger driven by one thread
SpecLedger == Init /\ [][LNext]_vars

\* the order book driven by one thread, one call at a time
SpecBook == Init /\ [][BNext]_vars

\* the order book with a match and a cancel in progress at the same time
SpecBookRace == Init /\ [][RaceNext]_vars

\* the engine's run() with the data handler streaming bars into the bus,
\* for a feed of any length
InitAnyFeed == QInit /\ LInit /\ BInit /\ RInit /\ AnyFeedInit /\ CInit /\ MInit /\ XInit

SpecEngine == InitAnyFeed /\ [][DNext]_vars

\* a loop iteration that dispatches the event at the head of the bus, as the
\* position of the thread and the list of dispatched events show it: the
\* steps DispatchMarketData, DispatchTradingSignal and DispatchTradeExecution
\* are the steps of the engine that satisfy it, and one of them can be taken
\* whenever its condition on the unprimed variables holds
DispatchHead ==
    /\ ~aborted
    /\ epc = "poll"
    /\ traditional_queue_ # <<>>
    /\ Head(traditional_queue_) # Null
    /\ epc' = "loop"
    /\ dispatched' = Append(dispatched, Head(traditional_queue_))

\* the steps of the thread that calls run(); each of them moves epc
EngineThread == Run \/ LoopCheck \/ PollEmpty \/ LoopExit \/ DispatchHead

\* run() is called, its thread keeps taking steps, and the data feed keeps
\* publishing until it has published every bar
FairSpecEngine ==
    InitAnyFeed /\ [][DNext]_vars /\ WF_epc(EngineThread) /\ WF_vars(StreamNext)

\* a ring buffer built from any configured size and used by one thread
InitAnyConfig == QInit /\ LInit /\ BInit /\ RInit /\ DInit /\ ConfigInit /\ MInit /\ XInit

SpecConfig == InitAnyConfig /\ [][CNext]_vars

\* a ring-buffer EventQueue and a fallback EventQueue of any configured size
\* given the same calls
SpecQueues == InitAnyConfig /\ [][QueuesNext]_vars

\* one Position adjusted by two threads
SpecPosition == Init /\ [][PNext]_vars

\* try_fill race: an order of any original quantity
InitAnyOrder ==
    /\ QInit /\ LInit /\ BInit /\ RInit /\ DInit /\ CInit /\ MInit /\ PInit
    /\ \E q \in OrderQuantities : TInitWith(q)
    /\ SInit /\ WInit /\ NInit /\ KInit

SpecFill == InitAnyOrder /\ [][TNext]_vars

\* the strategy constructed with any accepted pair of windows
InitAnyWindows ==
    /\ QInit /\ LInit /\ BInit /\ RInit /\ DInit /\ CInit /\ MInit /\ PInit
    /\ TInit
    /\ \E windows \in WindowPairs : SInitWith(windows)
    /\ WInit /\ NInit /\ KInit

SpecStrategy == InitAnyWindows /\ [][SNext]_vars

SpecEquity == Init /\ [][KNext]_vars

\* the dispatch loop on the ring buffer with both threads scheduled: a
\* thread inside a call keeps taking steps, and a compare-and-set that can
\* succeed does not fail forever
FairSpecRingEngine ==
    /\ Init /\ [][ENext]_vars
    /\ WF_vars(InPublish(FeedThread))
    /\ WF_vars(DispatchThreadRuns)
    /\ SF_vars(ClaimCas(FeedThread) /\ cursor_' # cursor_)
    /\ SF_vars(ClaimCas(DispatchProducer) /\ cursor_' # cursor_)

\* the blocking queue with both threads scheduled: a thread inside a call
\* keeps taking steps, and a compare-and-set that can succeed does not fail
\* forever.  A spurious wake-up may happen but is not promised.
FairSpecBlocking ==
    /\ Init /\ [][WNext]_vars
    /\ WF_vars(BlockingConsumerRuns("c1"))
    /\ WF_vars(BlockingProducerRuns("p1"))
    /\ SF_vars(ClaimCas("p1") /\ cursor_' # cursor_)

\* the memory pool used by two threads
SpecPool == Init /\ [][MNext]_vars

(***************************************************************************)
(* Ring buffer properties                                                  *)
(***************************************************************************)
\* no publish or consume call is in progress and every claimed sequence has
\* been passed by the consumer
QueueDrained ==
    /\ \A p \in Producers : ppc[p] = "idle"
    /\ \A c \in Consumers : cpc[c] = "idle"
    /\ consumer_sequence_ = cursor_

TimesReturned(e) == Cardinality({ i \in 1..Len(returned) : returned[i][2] = e })

\* C1: with one producer and one consumer, every event whose publish succeeded
\* is returned by exactly one consume call: never twice, and once the consumer
\* has caught up with the cursor, never zero times.
C1_PublishedReturnedExactlyOnce ==
    /\ \A e \in Range(published) : TimesReturned(e) <= 1
    /\ QueueDrained => \A e \in Range(published) : TimesReturned(e) = 1

\* C2: the consumer has read a slot for sequence s only after the producer's
\* store for s completed, the consumer sequence covers only written sequences,
\* and no consume that advanced the sequence returned a null slot value.
C2_NoReadBeforeWrite ==
    /\ \A c \in Consumers :
          cpc[c] \in {"clear", "set"} => next_consume_sequence[c] \in written
    /\ \A s \in 0..consumer_sequence_ : s \in written
    /\ \A i \in 1..Len(returned) : returned[i][2] # Null

\* C3: no producer store replaces an event that no consumer has taken, and
\* never more than capacity sequences are claimed beyond the consumer sequence.
C3_NoOverwriteOfUnconsumed ==
    /\ ~overwrote
    /\ cursor_ - consumer_sequence_ <= capacity

PublishIndex(e) == CHOOSE i \in 1..Len(published) : published[i] = e

\* C10: with a single producer the events the consumer returns appear in the
\* order in which they were published.
C10_ConsumedInPublishOrder ==
    \A i, j \in 1..Len(returned) :
        (i < j /\ returned[i][2] # Null /\ returned[j][2] # Null)
            => PublishIndex(returned[i][2]) < PublishIndex(returned[j][2])

\* C11: with two threads calling try_consume concurrently, every published
\* event is returned by exactly one of the calls: never by both, and once the
\* consumers have caught up with the cursor, never by neither.
C11_TwoConsumersExactlyOnce ==
    /\ \A e \in Range(published) : TimesReturned(e) < 2
    /\ QueueDrained => \A e \in Range(published) : TimesReturned(e) > 0

\* C12: in every reachable state the producer cursor is at least the consumer
\* sequence, and no step of any producer or consumer thread decreases the
\* cursor or the consumer sequence.
C12_SequencesOrderedAndMonotonic ==
    /\ [](cursor_ >= consumer_sequence_)
    /\ [][cursor_' >= cursor_ /\ consumer_sequence_' >= consumer_sequence_]_vars

\* capacity sequences are claimed beyond the consumer sequence
RingFull == cursor_ - consumer_sequence_ >= capacity

\* thread p is inside try_publish and has not claimed a sequence
TryPublishClaiming(p) ==
    ppc[p] \in {"claim", "check", "recheck", "cas"} /\ ~pblocking[p]

\* C13: a step of try_publish taken while the ring is full changes neither the
\* cursor nor the consumer sequence nor any slot and claims no sequence, and
\* the full test made on the current cursor ends the call with nothing
\* published (try_publish returns false).
C13_FullRingRejectsTryPublish ==
    [][\A p \in Producers :
          (RingFull /\ TryPublishClaiming(p) /\ ppc'[p] # ppc[p]) =>
              /\ cursor_' = cursor_
              /\ consumer_sequence_' = consumer_sequence_
              /\ buffer_' = buffer_
              /\ ppc'[p] # "store"
              /\ (ppc[p] = "recheck" /\ current_sequence[p] = cursor_) =>
                     /\ ppc'[p] = "idle"
                     /\ pcount'[p] = pcount[p]
                     /\ published' = published]_vars

\* a try_publish call has returned false on a full ring: the thread is idle
\* again and the event it was called with has not been published
C13_TryPublishRejected ==
    \E p \in Producers :
        /\ RingFull
        /\ ppc[p] = "idle"
        /\ ~pblocking[p]
        /\ pevent[p] = EventOf(p, pcount[p] + 1)
        /\ \A i \in DOMAIN buffer_ : buffer_[i] # Null

IsPowerOfTwo(n) == n > 0 /\ BitAnd(n, n - 1) = 0

\* the slots that the sequences 0 .. capacity()-1 are stored in
SlotsAddressed ==
    { RingIndex(sequence) : sequence \in 0..(ring.buffer_size - 1) }
        \cap DOMAIN ring.buffer_

\* C14: for every configured buffer_size, capacity() is a power of two >= 2,
\* the slot index is sequence AND (capacity()-1) and reaches capacity()
\* distinct slots of the storage, no access leaves the storage, and what the
\* consumes have returned are the published events in publish order, all of
\* them once the consumer has caught up (in particular capacity() events
\* published without consuming).
C14_ConfiguredSizeGivesWorkingRing ==
    /\ IsPowerOfTwo(ring.buffer_size) /\ ring.buffer_size >= 2
    /\ ring.buffer_mask_ = ring.buffer_size - 1
    /\ Cardinality(SlotsAddressed) = ring.buffer_size
    /\ ~crashed
    /\ Len(delivered) <= Len(accepted)
    /\ \A i \in 1..Len(delivered) : delivered[i] = accepted[i]
    /\ ring.consumer_sequence_ = ring.cursor_ => delivered = accepted

\* capacity() events published before any consume, then all consumed: the
\* consumes returned exactly the published events in order
RingFilledThenDrainedInOrder ==
    (/\ Len(accepted) = ring.buffer_size
     /\ ring.cursor_ = ring.buffer_size - 1
     /\ ring.consumer_sequence_ = ring.cursor_) => delivered = accepted

\* no event is handed to two try_consume calls
NoEventReturnedTwice == \A e \in AllEvents : TimesReturned(e) <= 1

(***************************************************************************)
(* Portfolio ledger properties                                             *)
(***************************************************************************)
RECURSIVE SumMarketValue(_)
SumMarketValue(S) ==
    IF S = {} THEN D(0)
    ELSE LET x == CHOOSE y \in S : TRUE
         IN  FAdd(get_market_value(positions_[x]), SumMarketValue(S \ {x}))

\* C4: after any sequence of fills and bars, get_total_equity() equals the
\* available cash plus the sum of the open positions' market values.
C4_EquityIsCashPlusMarketValue ==
    get_total_equity =
        FAdd(portfolio_stats_.available_cash, SumMarketValue(DOMAIN positions_))

\* (mark - entry) x quantity summed over the held positions
RECURSIVE SumMarkToMarket(_)
SumMarkToMarket(S) ==
    IF S = {} THEN D(0)
    ELSE LET x == CHOOSE y \in S : TRUE
         IN  FAdd(FMul(FSub(positions_[x].current_price_, positions_[x].entry_price_),
                       positions_[x].quantity_),
                  SumMarkToMarket(S \ {x}))

\* every held position has been marked by a bar since it was opened
AllPositionsMarked ==
    /\ DOMAIN positions_ # {}
    /\ \A s \in DOMAIN positions_ : positions_[s].current_price_ # D(0)

\* C15: once a fill has opened a position and a bar has marked it,
\* get_total_unrealized_pnl() equals (bar close - entry price) x quantity,
\* summed over the held positions.
C15_UnrealizedIsMarkToMarket ==
    AllPositionsMarked =>
        portfolio_stats_.total_unrealized_pnl = SumMarkToMarket(DOMAIN positions_)

\* the fills the ledger is driven with
FillEvents ==
    [symbol : Symbols, quantity : { D(q) : q \in Quantities },
     price : { D(x) : x \in Prices }, commission : { D(c) : c \in Commissions },
     is_buy : BOOLEAN]

\* the signed quantity held in a symbol (0 without a position)
HeldQuantity(symbol) ==
    IF symbol \in DOMAIN positions_ THEN positions_[symbol].quantity_ ELSE D(0)

\* the fill is against the held position: it reduces, closes or flips it
FillCloses(event) ==
    \/ FLess(D(0), HeldQuantity(event.symbol)) /\ ~event.is_buy
    \/ FLess(HeldQuantity(event.symbol), D(0)) /\ event.is_buy

\* (fill price - entry price) x closed quantity x sign(prior quantity)
RealizedByFill(event) ==
    IF FillCloses(event)
    THEN LET pos == positions_[event.symbol]
         IN  FMul(FMul(FSub(event.price, pos.entry_price_),
                       FMin(event.quantity, FAbs(pos.quantity_))),
                  IF FLess(D(0), pos.quantity_) THEN D(1) ELSE D(-1))
    ELSE D(0)

\* buy q @ P arrived with no position in the symbol and was followed directly
\* by sell q @ P of the same symbol, both with zero commission
RoundTripDone ==
    /\ Len(recent_fills) = 2
    /\ ~recent_fills[1].held
    /\ recent_fills[1].event.is_buy
    /\ ~recent_fills[2].event.is_buy
    /\ recent_fills[1].event.symbol = recent_fills[2].event.symbol
    /\ recent_fills[1].event.quantity = recent_fills[2].event.quantity
    /\ recent_fills[1].event.price = recent_fills[2].event.price
    /\ recent_fills[1].event.commission = D(0)
    /\ recent_fills[2].event.commission = D(0)

\* what every reading of the round trip agrees on: no position is left, and
\* realized P&L and cash are what they were before the buy
RoundTripRestores ==
    /\ recent_fills[1].event.symbol \notin DOMAIN positions_
    /\ portfolio_stats_.total_realized_pnl = recent_fills[1].total_realized_pnl
    /\ portfolio_stats_.available_cash = recent_fills[1].available_cash

SignedQuantity(event) ==
    FMul(event.quantity, IF event.is_buy THEN D(1) ELSE D(-1))

\* C18: a position whose quantity a fill has brought to zero is not in the
\* position map (no position in the map is flat), so for its symbol
\* get_position_snapshot throws std::out_of_range, exactly as it does for a
\* symbol that never had a fill.
C18_ClosedPositionIsNotFound ==
    /\ \A symbol \in DOMAIN positions_ :
          positions_[symbol].quantity_ # D(0) /\ ~is_flat(positions_[symbol])
    /\ \A symbol \in Symbols :
          HeldQuantity(symbol) = D(0) =>
              /\ get_position_snapshot(symbol).thrown
              /\ get_position_snapshot(symbol) = get_position_snapshot(UnknownSymbol)

\* a position was opened and closed again and its symbol is looked up
C18_LookupAfterClose ==
    /\ Len(recent_fills) = 2
    /\ get_position_snapshot(recent_fills[2].event.symbol) = out_of_range
    /\ recent_fills[2].held

\* the average entry price the symbol's position must have after the fill:
\* the notional-weighted average when the fill adds in the direction held (or
\* opens the position), the old entry price when it reduces the position,
\* and the fill price when it flips the direction
EntryAfterFill(event) ==
    LET held == HeldQuantity(event.symbol)
        delta == SignedQuantity(event)
    IN  IF ~FillCloses(event)
        THEN IF held = D(0) THEN event.price
             ELSE FDiv(FAdd(FMul(held, positions_[event.symbol].entry_price_),
                            FMul(delta, event.price)),
                       FAdd(held, delta))
        ELSE IF FLess(event.quantity, FAbs(held))
             THEN positions_[event.symbol].entry_price_
             ELSE event.price

\* C19: after a fill that leaves a position, the position's average entry
\* price is the notional-weighted average of old entry and fill price when
\* the fill adds in the same direction, unchanged when the fill reduces the
\* position, and the fill price when the fill flips the direction.
C19_EntryPriceAfterFill ==
    [][\A event \in FillEvents :
          (on_trade_execution(event) /\ event.symbol \in DOMAIN positions_') =>
              positions_'[event.symbol].entry_price_ = EntryAfterFill(event)]_vars

\* C16: a fill that reduces or flips a position changes the total realized
\* P&L by exactly (fill price - entry price) x closed quantity x sign(prior
\* quantity); a fill that opens or increases a position leaves it unchanged.
C16_RealizedChangeIsClosedPnl ==
    [][\A event \in FillEvents :
          on_trade_execution(event) =>
              FSub(portfolio_stats_.total_realized_pnl',
                   portfolio_stats_.total_realized_pnl) = RealizedByFill(event)]_vars

(***************************************************************************)
(* Order book properties                                                   *)
(***************************************************************************)
\* the order has received a fill while resting
HasFill(o) == o.quantity < o.original_quantity

\* C5: within one price level resting orders are filled oldest first: when an
\* order has received a fill, every order added before it at the same price
\* and side has been filled completely (or was cancelled).
C5_OldestFilledFirst ==
    \A i, j \in 1..Len(orders_) :
        (/\ i < j
         /\ orders_[i].side = orders_[j].side
         /\ orders_[i].price = orders_[j].price
         /\ HasFill(orders_[j]))
            => (orders_[i].quantity = 0 \/ orders_[i].status = "CANCELLED")

\* C6: whenever both sides of the book have resting quantity the best bid is
\* below the best ask.
C6_BookNotCrossed ==
    (get_best_bid > 0 /\ get_best_ask > 0) => get_best_bid < get_best_ask

RECURSIVE ActiveRemaining(_)
ActiveRemaining(chain) ==
    IF chain = <<>> THEN 0
    ELSE (IF orders_[Head(chain)].status \in {"ACTIVE", "PARTIALLY_FILLED"}
          THEN orders_[Head(chain)].quantity ELSE 0)
         + ActiveRemaining(Tail(chain))

AllLevels ==
    { bid_levels_[p] : p \in DOMAIN bid_levels_ }
        \cup { ask_levels_[p] : p \in DOMAIN ask_levels_ }

\* C7: between calls every price level's total quantity is the sum of the
\* remaining quantities of its ACTIVE and PARTIALLY_FILLED orders and is not
\* negative.
C7_LevelTotalIsActiveSum ==
    \A level \in AllLevels :
        /\ level.total_quantity_ = ActiveRemaining(level.chain)
        /\ level.total_quantity_ >= 0

\* C8: once cancel_order has returned true for an order, no match call that
\* starts afterwards takes quantity from that order, whatever the interleaving
\* of the earlier match and cancel calls was.
C8_NoFillAfterCancel == ~filled_after_cancel

\* the status changes an order may make
AllowedStatusMove(from, to) ==
    \/ from = to
    \/ from = "ACTIVE" /\ to \in {"PARTIALLY_FILLED", "FULLY_FILLED", "CANCELLED"}
    \/ from = "PARTIALLY_FILLED" /\ to \in {"FULLY_FILLED", "CANCELLED"}

\* C20: under any sequence of add, match, cancel and modify calls an order's
\* status only moves ACTIVE -> {PARTIAL, FILLED, CANCELLED} or PARTIAL ->
\* {FILLED, CANCELLED}, so FILLED and CANCELLED are never left; a FILLED order
\* has remaining quantity 0; and the remaining quantity never exceeds the
\* original quantity.
C20_OrderStatusOnlyAdvances ==
    /\ [](\A i \in DOMAIN orders_ :
             /\ orders_[i].status = "FULLY_FILLED" => orders_[i].quantity = 0
             /\ orders_[i].quantity <= orders_[i].original_quantity)
    /\ [][\A i \in DOMAIN orders_ :
             /\ i \in DOMAIN orders_'
             /\ AllowedStatusMove(orders_[i].status, orders_'[i].status)]_vars

\* the price levels with their aggregates, the orders with their statuses and
\* remaining quantities, and the id lookup table
BookContents == <<bid_levels_, ask_levels_, orders_, order_lookup_>>

CanFill(b, pos) ==
    \E quantity \in BookQuantities :
        match_market_order(b, OppositeOf(b.orders_[pos].side), quantity, 0, 0)
            .book.orders_[pos].quantity # b.orders_[pos].quantity

\* C22: after modify_order(id, new_qty, new_price) has returned true the
\* caller's id refers to the replacement order: cancel_order(id) returns true
\* and takes the replacement's remaining quantity out of its price level, and
\* no later match fills the replacement.
C22_CancelReachesReplacement ==
    \A order_id \in OrderIds, new_quantity \in BookQuantities,
       new_price \in BookPrices \cup {0} :
        LET m == modify_order(Book, order_id, new_quantity, new_price)
            replacement == Len(m.book.orders_)
            c == cancel_order(m.book, order_id)
            order == m.book.orders_[replacement]
        IN  m.ok =>
              /\ c.ok
              /\ c.book.orders_[replacement].status = "CANCELLED"
              /\ LevelsOf(c.book, order.side)[order.price].total_quantity_
                    = LevelsOf(m.book, order.side)[order.price].total_quantity_
                        - order.quantity
              /\ ~CanFill(c.book, replacement)

\* the price is one a market order of the side may trade at
WithinBound(side, price, max_price, min_price) ==
    IF side = "BUY" THEN max_price <= 0 \/ price <= max_price
    ELSE min_price <= 0 \/ price >= min_price

\* the resting orders an incoming order of the side may trade with
Matchable(side, max_price, min_price) ==
    { i \in DOMAIN orders_ :
        /\ is_opposite_side(orders_[i].side, side)
        /\ is_active(orders_[i])
        /\ WithinBound(side, orders_[i].price, max_price, min_price) }

\* price a is ahead of price b for an incoming order of the side
BetterPrice(side, a, b) == IF side = "BUY" THEN a < b ELSE a > b

MatchServesBook(side, quantity, max_price, min_price) ==
    LET r == match_market_order(Book, side, quantity, max_price, min_price)
        resting == Matchable(side, max_price, min_price)
        total == SumOver([i \in resting |-> orders_[i].quantity], resting)
        filled == { i \in DOMAIN orders_ :
                      r.book.orders_[i].quantity # orders_[i].quantity }
    IN  /\ filled \subseteq resting
        /\ \A i \in filled, j \in resting :
               BetterPrice(side, orders_[j].price, orders_[i].price)
                   => r.book.orders_[j].quantity = 0
        /\ r.result.matched_quantity = Min(quantity, total)
        /\ r.result.fully_filled <=> (r.result.matched_quantity = quantity)

\* C23: match_market_order(side, qty) with qty > 0 takes the opposite levels
\* in price priority, fills nothing beyond the price bound, reports
\* matched_quantity = min(qty, resting quantity within the bound) and sets
\* fully_filled exactly when matched_quantity = qty.
C23_MarketOrderTakesBestPrices ==
    \A side \in Sides, quantity \in BookQuantities,
       max_price \in PriceBounds, min_price \in PriceBounds :
        MatchServesBook(side, quantity, max_price, min_price)

\* the resting orders that receive a fill from a market order
FilledBy(side, quantity, max_price, min_price) ==
    { i \in DOMAIN orders_ :
        match_market_order(Book, side, quantity, max_price, min_price)
            .book.orders_[i].quantity # orders_[i].quantity }

\* C24: MatchResult.orders_matched returned by match_market_order is the
\* number of resting orders that received a fill during the call, also when
\* several of them rest at the same price level.
C24_OrdersMatchedCountsOrders ==
    \A side \in Sides, quantity \in BookQuantities,
       max_price \in PriceBounds, min_price \in PriceBounds :
        match_market_order(Book, side, quantity, max_price, min_price)
            .result.orders_matched
          = Cardinality(FilledBy(side, quantity, max_price, min_price))

\* match_limit_order leaves its residual resting and nothing it could have
\* traded with: no active opposite order at a price the limit accepts, and
\* none at a price that meets the price the residual rests at
LimitOrderRestsClear(order_id, side, price, quantity) ==
    LET r == match_limit_order(Book, order_id, side, price, quantity)
        after == r.book.orders_
        rested == Len(after)
        opposite == { i \in DOMAIN after :
                        /\ is_opposite_side(after[i].side, side)
                        /\ is_active(after[i]) }
    IN  Len(after) > Len(orders_) =>
          \A i \in opposite :
              /\ ~WithinBound(side, after[i].price, price, price)
              /\ BetterPrice(side, after[rested].price, after[i].price)

\* C25: match_limit_order(id, side, price, qty) matches against the opposite
\* side within the limit price and rests only the residual: when a residual
\* was rested, no opposite level with resting quantity remains at a price the
\* limit accepts, and the rested order neither crosses nor locks the book, for
\* every limit price, multiples of the tick or not.
C25_LimitResidualDoesNotCross ==
    \A order_id \in OrderIds, side \in Sides, price \in BookPrices,
       quantity \in BookQuantities :
        LimitOrderRestsClear(order_id, side, price, quantity)

(***************************************************************************)
(* Dispatch loop properties                                                *)
(***************************************************************************)
\* C9: every event the dispatch loop has dequeued and dispatched has been
\* released to its pool (its cell is no longer allocated) when the loop turns
\* to the next event.
C9_DispatchedEventsReleased ==
    \A i \in 1..Len(dispatched) : dispatched[i] \notin live_

\* the bars the dispatch loop has delivered to the portfolio and the strategy
BarsDispatched ==
    { i \in 1..Len(dispatched) : events_[dispatched[i]].type = "MARKET_DATA" }

\* C26: run() dispatches every bar of the loaded feed and then returns: with
\* a non-empty feed and no stop request the run eventually terminates, having
\* delivered each bar of the feed to the portfolio and the strategy.
C26_RunDeliversFeedAndReturns ==
    <>(epc = "returned" /\ Cardinality(BarsDispatched) = all_data_points_)

\* the signals and fills that are in the bus, not yet dispatched
PendingOrders ==
    { i \in 1..Len(traditional_queue_) :
        /\ traditional_queue_[i] # Null
        /\ events_[traditional_queue_[i]].type
              \in {"TRADING_SIGNAL", "TRADE_EXECUTION"} }

\* C27: every signal a strategy emits during run() is executed and every
\* resulting fill is applied to the portfolio before run() returns: when the
\* dispatch loop has exited no signal and no fill is left in the bus.
C27_NoOrderLeftInBus == (epc = "returned") => PendingOrders = {}

\* C28: when an event pool is exhausted, acquire returns null and the
\* dispatch loop halts the run: no strategy, executor or data feed fills in
\* or dereferences a null event, and no null event is enqueued.
C28_NullEventNeverUsed ==
    /\ ~null_dereferenced
    /\ \A i \in 1..Len(traditional_queue_) : traditional_queue_[i] # Null

(***************************************************************************)
(* Memory pool properties                                                  *)
(***************************************************************************)
\* C29: the pool never has more than max_pool_size cells, and an allocate
\* call returns nullptr only if at some moment of the call the pool had
\* max_pool_size cells and all of them were allocated; also with two threads
\* inside allocate at the same time.
C29_AllocateFailsOnlyWhenExhausted ==
    /\ CellCount <= max_pool_size
    /\ \A t \in PoolThreads :
           allocate_result[t] = <<Null>> => saw_exhausted[t]

(***************************************************************************)
(* Event queue properties                                                  *)
(***************************************************************************)
\* C30: for the same calls of enqueue and dequeue by one thread, never
\* holding more than capacity() events, the queue with the ring buffer and
\* the queue with the mutex-guarded fallback return the same dequeue
\* results, events and nullptr alike, and the same empty() and size().
C30_FallbackAndRingAgree ==
    /\ ~crashed
    /\ \A i \in 1..Len(dequeued) : dequeued[i][1] = dequeued[i][2]
    /\ RingEmpty = (traditional_queue_ = <<>>)
    /\ RingSize = Len(traditional_queue_)

\* the cells reached from free_list_head_ along the next pointers
RECURSIVE FreeListFrom(_, _)
FreeListFrom(block, steps) ==
    IF block = Null \/ steps = 0 THEN {}
    ELSE {block} \cup FreeListFrom(block_next[block], steps - 1)

FreeList == FreeListFrom(free_list_head_, max_pool_size * growth_factor)

\* cells of a chunk that allocate_chunk has constructed and not yet pushed
BeingPushed ==
    UNION { (alocal[t].first + alocal[t].pushed) ..
            (alocal[t].first + alocal[t].count - 1) :
                t \in { u \in PoolThreads : apc[u] = "chunk" } }

\* C31: with threads calling allocate and deallocate on one pool at the same
\* time, no cell is held by two threads at once, and every cell that is not
\* allocated is on the free list (or about to be pushed by allocate_chunk).
C31_NoCellSharedNoCellLost ==
    /\ \A t, u \in PoolThreads : t # u => held_[t] \cap held_[u] = {}
    /\ \A block \in 1..CellCount :
           block \notin is_allocated /\ block \notin BeingPushed
               => block \in FreeList

(***************************************************************************)
(* Concurrent ledger properties                                            *)
(***************************************************************************)
\* C32: fills applied to one symbol by several threads lose no update: when
\* all calls have completed the position's quantity is the prior quantity
\* (0) plus the sum of the signed fill quantities, also when one of the
\* fills makes the position flat.
C32_NoFillLost ==
    (\A t \in AdjustThreads : jpc[t] = "idle")
        => shared_position.quantity_ = D(deltas_applied)

\* C33: a match and a cancel_order that ran at the same time on one resting
\* order leave the level consistent: once both calls have completed, the
\* level's total quantity is the sum of the remaining quantities of its
\* ACTIVE and PARTIALLY_FILLED orders.
C33_LevelTotalConverges ==
    AllIdle =>
        \A level \in AllLevels :
            level.total_quantity_ = ActiveRemaining(level.chain)

(***************************************************************************)
(* Order fill properties                                                   *)
(***************************************************************************)
\* the fills taken from the order by calls that have not returned yet
FillsInFlight ==
    SumOver([t \in FillThreads |->
                IF fpc[t] \in {"status_load", "status_cas"}
                THEN flocal[t].actual_fill ELSE 0], FillThreads)

\* C34: try_fill calls that run at the same time on one order never over-fill
\* it: the values returned (with the fills of calls about to return) add up
\* to original quantity minus remaining quantity, no call returns more than
\* it asked for, and the remaining quantity is never negative.
C34_NeverOverFilled ==
    /\ filled_total + FillsInFlight
           = resting_order.original_quantity - resting_order.quantity
    /\ \A t \in FillThreads :
           try_fill_result[t].returned <= try_fill_result[t].fill_quantity
    /\ resting_order.quantity >= 0

\* a call is about to exchange on a quantity that another call, which has
\* returned its fill, has changed since this call loaded it
C34_ExchangeOnStaleQuantity ==
    \E t \in FillThreads :
        /\ fpc[t] = "cas"
        /\ resting_order.quantity # flocal[t].current_qty
        /\ resting_order.quantity > 0
        /\ filled_total > 0

(***************************************************************************)
(* Execution of signals                                                    *)
(***************************************************************************)
\* the bars of a symbol that the dispatch loop has delivered, as positions
\* in dispatched
BarsDispatchedOf(symbol) ==
    { k \in BarsDispatched : events_[dispatched[k]].symbol = symbol }

\* the close of the most recent bar of the symbol that has been dispatched
LatestClose(symbol) ==
    LET latest == CHOOSE k \in BarsDispatchedOf(symbol) :
                      \A j \in BarsDispatchedOf(symbol) : j <= k
    IN  events_[dispatched[latest]].close

\* C35: a signal is executed against the most recent bar close of its
\* symbol: every fill the engine creates has as its price that close
\* adjusted by the configured slippage and half-spread.
C35_FillAtLatestClose ==
    [][\A i \in (DOMAIN events_') \ (DOMAIN events_) :
          events_'[i].type = "TRADE_EXECUTION"
              => /\ BarsDispatchedOf(events_'[i].symbol) # {}
                 /\ events_'[i].price =
                        calculate_execution_price(
                            LatestClose(events_'[i].symbol),
                            events_'[i].is_buy)]_vars

(***************************************************************************)
(* Strategy properties                                                     *)
(***************************************************************************)
\* C36: SmaCrossoverStrategy emits no signal on a bar before its long window
\* is full: while fewer than long_window bars have been received,
\* generate_signal has returned no signal.
C36_NoSignalBeforeLongWindow ==
    bars_received < long_window_ => generated = "NONE"

(***************************************************************************)
(* Blocking wait strategy properties                                       *)
(***************************************************************************)
\* C37: a consumer waiting in consume() for the next sequence eventually
\* returns once that sequence has been published, whether the producer
\* used publish or try_publish.
C37_WaitingConsumerReturns ==
    (cpc["c1"] # "idle" /\ cursor_ >= next_consume_sequence["c1"])
        ~> (cpc["c1"] = "idle")

(***************************************************************************)
(* Dispatch loop on the ring buffer                                        *)
(***************************************************************************)
\* C38: when the dispatch thread, the only consumer of the bus, enqueues a
\* signal or a fill, the enqueue eventually completes, also when the ring
\* buffer is full.
C38_ReenqueueCompletes ==
    (ppc[DispatchProducer] # "idle") ~> (ppc[DispatchProducer] = "idle")

(***************************************************************************)
(* Frame of modify_order                                                   *)
(***************************************************************************)
\* the resting orders that cancel_order(order_id) cancels in book b
CancelledBy(b, order_id) ==
    LET c == cancel_order(b, order_id)
    IN  { i \in 1..Len(b.orders_) :
            c.ok /\ b.orders_[i].status # "CANCELLED"
                 /\ c.book.orders_[i].status = "CANCELLED" }

\* C39: modify_order(id, ...) affects only the order identified by id: the
\* lookup entry, status and remaining quantity of every other resting order
\* are unchanged, and a later cancel_order(other_id) cancels the order it
\* would have cancelled before the call.
C39_ModifyLeavesOtherOrders ==
    \A order_id \in OrderIds, new_quantity \in BookQuantities,
       new_price \in BookPrices \cup {0} :
        LET m == modify_order(Book, order_id, new_quantity, new_price)
        IN  \A other \in (DOMAIN order_lookup_) \ {order_id} :
               /\ other \in DOMAIN m.book.order_lookup_
               /\ m.book.order_lookup_[other] = order_lookup_[other]
               /\ \A i \in 1..Len(orders_) :
                      orders_[i].order_id = other
                          => m.book.orders_[i] = orders_[i]
               /\ CancelledBy(m.book, other) = CancelledBy(Book, other)

(***************************************************************************)
(* Equity cache properties                                                 *)
(***************************************************************************)
\* C40: the cached total equity is coherent: when no ledger update and no
\* read is in progress, get_total_equity returns the current total-equity
\* aggregate, so no stale value is left cached with the cache-valid flag set.
C40_CachedEquityCoherent ==
    (\A t \in EquityThreads : kpc[t] = "idle")
        => get_total_equity = portfolio_stats_.total_equity

====
